---- MODULE Spec2Model ----
(***************************************************************************)
(* OCI Secrets Store CSI driver provider: the secret-bundle resolution     *)
(* engine (internal/service), the value types (internal/types) and the     *)
(* Mount handler of the provider server (internal/server).                 *)
(*                                                                         *)
(* Go strings are TLA+ strings, []byte is a sequence of byte values, a nil *)
(* error is the value nil, a nil slice is the empty sequence.              *)
(***************************************************************************)
EXTENDS Integers, Sequences, FiniteSets, TLC

VARIABLES
    pc,            \* position of the invocation in Mount / GetSecretBundles
    mountRequest,  \* the provider.MountRequest handed to Mount
    requests,      \* []*types.SecretBundleRequest: the request objects (shared by pointer)
    requests0,     \* the batch as it was when GetSecretBundles was called
    auth,          \* *types.Auth handed to GetSecretBundles
    vaultID,       \* types.VaultID handed to GetSecretBundles
    apiCallMocks,  \* the vault: what the remote answers to each fetch
    i,             \* loop index of GetSecretBundles (1-based)
    secretBundles, \* the local slice GetSecretBundles fills
    bundles,       \* first return value of GetSecretBundles
    err,           \* second return value of GetSecretBundles
    calls,         \* external calls issued so far, in order
    response,      \* *provider.MountResponse returned by Mount
    mountErr,      \* error returned by Mount
    unit,          \* a value of internal/types under a method call: receiver, argument, results
    ctx,           \* the context.Context of the invocation: live, or past its deadline
    grpcRequest,   \* the package-level variable grpcRequest of internal/metrics
    parked         \* the local variables of the other goroutine handling a request

vars == <<pc, mountRequest, requests, requests0, auth, vaultID, apiCallMocks,
          i, secretBundles, bundles, err, calls, response, mountErr, unit, ctx,
          grpcRequest, parked>>

\* Go's nil error
nil == "<nil>"

\* context.Background(), which has no deadline, a context whose deadline is
\* still ahead, and one whose deadline has passed
Background == "Background"
WithDeadline == "WithDeadline"
DeadlineExceeded == "DeadlineExceeded"

\* a nil pointer / nil message
NULL == [isNil |-> TRUE]

-----------------------------------------------------------------------------
(* strings *)

\* unicode.IsSpace restricted to the characters the model uses
IsSpace(c) == c \in {" ", "\t"}

RECURSIVE TrimLeft(_)
TrimLeft(s) ==
    IF Len(s) = 0 THEN s
    ELSE IF IsSpace(Head(s)) THEN TrimLeft(Tail(s)) ELSE s

RECURSIVE TrimRight(_)
TrimRight(s) ==
    IF Len(s) = 0 THEN s
    ELSE IF IsSpace(SubSeq(s, Len(s), Len(s)))
         THEN TrimRight(SubSeq(s, 1, Len(s) - 1)) ELSE s

\* strings.TrimSpace
TrimSpace(s) == TrimRight(TrimLeft(s))

-----------------------------------------------------------------------------
(* internal/types *)

\* Stage constants (iota)
None == 0
Current == 1
Pending == 2
Latest == 3
Previous == 4
Deprecated == 5

stageMapping ==
    [s \in {Current, Pending, Latest, Previous, Deprecated} |->
        CASE s = Current -> "CURRENT"
          [] s = Pending -> "PENDING"
          [] s = Latest -> "LATEST"
          [] s = Previous -> "PREVIOUS"
          [] s = Deprecated -> "DEPRECATED"]

\* (*Stage).String; a value outside the map reads the map's zero value
Stage_String(stage) ==
    IF stage = None THEN ""
    ELSE IF stage \in DOMAIN stageMapping THEN stageMapping[stage] ELSE ""

\* a slip: a token that is not known resets the stage
Stage_FromString_reset(old, value) ==
    IF value = "" THEN [stage |-> None, err |-> nil]
    ELSE IF \E s \in DOMAIN stageMapping : stageMapping[s] = value
         THEN [stage |-> CHOOSE s \in DOMAIN stageMapping : stageMapping[s] = value,
               err |-> nil]
         ELSE [stage |-> None, err |-> "unknown stage: " \o value]

\* (*Stage).FromString applied to a stage holding old: the new value and the error
Stage_FromString(old, value) ==
    IF value = "" THEN [stage |-> None, err |-> nil]
    ELSE IF \E s \in DOMAIN stageMapping : stageMapping[s] = value
         THEN [stage |-> CHOOSE s \in DOMAIN stageMapping : stageMapping[s] = value,
               err |-> nil]
         ELSE [stage |-> old, err |-> "unknown stage: " \o value]

\* ContentType constants
Base64 == 0

\* determineFileName
determineFileName(name, alias) ==
    LET fileName == TrimSpace(name)
        fileAlias == TrimSpace(alias)
    IN  IF Len(fileAlias) > 0 THEN fileAlias ELSE fileName

\* (*SecretBundleRequest).GetFilePath and (*SecretBundle).GetFilePath
GetFilePath(r) == determineFileName(r.Name, r.FileName)

\* a types.SecretBundleRequest
SecretBundleRequest(name, stage, versionNumber, fileName) ==
    [Name |-> name, Stage |-> stage, VersionNumber |-> versionNumber, FileName |-> fileName]

\* OCIPrincipalType constants
Instance == "instance"
User == "user"
Workload == "workload"

\* a types.Auth; the token stands for its WorkloadIdentityCfg.SaToken
Auth(type, config, saToken) == [Type |-> type, Config |-> config, SaToken |-> saToken]

\* the zero types.AuthConfig
NoConfig ==
    [Region |-> "", TenancyID |-> "", UserID |-> "", PrivateKey |-> "",
     Fingerprint |-> "", Passphrase |-> ""]

-----------------------------------------------------------------------------
(* the vault client: the substitute client of the service tests *)

\* secrets.GetMappingGetSecretBundleByNameStageEnum on an upper-case token
GetMappingGetSecretBundleByNameStageEnum(val) ==
    IF val \in {"CURRENT", "PENDING", "LATEST", "PREVIOUS", "DEPRECATED"}
    THEN [enum |-> val, ok |-> TRUE]
    ELSE [enum |-> "", ok |-> FALSE]

\* the dynamic type of a well-formed remote content, and of a malformed one
Base64SecretBundleContentDetails == "Base64SecretBundleContentDetails"
OtherContentDetails == "string"

\* apiCallMock: a pointer is a sequence of length 0 (nil) or 1
apiCallMock(name, version, stage, id, respVersion, respStages, kind, content) ==
    [request  |-> [SecretName |-> name, VersionNumber |-> <<version>>, Stage |-> stage],
     response |-> [SecretId |-> id, VersionNumber |-> respVersion, Stages |-> respStages,
                   ContentKind |-> kind, Content |-> content]]

\* mockSecretClient.matchRequests
matchRequests(r1, r2) ==
    LET match == r1.SecretName = r2.SecretName /\ r1.Stage = r2.Stage
    IN  IF r1.VersionNumber # <<>> /\ r2.VersionNumber # <<>>
        THEN match /\ r1.VersionNumber[1] = r2.VersionNumber[1]
        ELSE match

\* mockSecretClient.GetSecretBundleByName: the first matching mock answers
GetSecretBundleByName(mocks, request) ==
    LET hits == {k \in 1..Len(mocks) : matchRequests(request, mocks[k].request)}
    IN  IF hits # {}
        THEN [response |-> mocks[CHOOSE k \in hits : \A j \in hits : k <= j].response,
              err |-> nil]
        ELSE [response |-> NULL, err |-> "secret not found"]

-----------------------------------------------------------------------------
(* internal/service *)

\* the two errors of checkNameDuplication
DuplicateNameError(name) == "duplicated secret name: " \o name
DuplicateAliasError(alias) == "duplicated fileName name: " \o alias

\* a slip in the attribution: the alias is blamed whenever there is one
duplicationError_aliasFirst(fileName, request) ==
    IF request.FileName = ""
    THEN DuplicateNameError(request.Name)
    ELSE DuplicateAliasError(request.FileName)

\* the error checkNameDuplication returns for the request whose path fileName
\* was seen before
duplicationError(fileName, request) ==
    IF fileName = request.Name
    THEN DuplicateNameError(request.Name)
    ELSE DuplicateAliasError(request.FileName)

\* the run-time panic of reading a field through a nil pointer
NilDereference == "panic: runtime error: invalid memory address or nil pointer dereference"

\* OCISecretService.checkNameDuplication from position k of the range loop on;
\* fileNames is the set of paths whose count in the map is at least one;
\* GetFilePath of a nil request panics
RECURSIVE checkNameDuplicationFrom(_, _, _)
checkNameDuplicationFrom(reqs, k, fileNames) ==
    IF k > Len(reqs) THEN nil
    ELSE LET request == reqs[k]
             fileName == GetFilePath(request)
         IN  IF request = NULL THEN NilDereference
             ELSE IF fileName \in fileNames
             THEN duplicationError(fileName, request)
             ELSE checkNameDuplicationFrom(reqs, k + 1, fileNames \cup {fileName})

\* a slip in the check: only adjacent requests are compared
checkNameDuplication_adjacent(reqs) ==
    IF \E k \in 2..Len(reqs) : GetFilePath(reqs[k]) = GetFilePath(reqs[k - 1])
    THEN checkNameDuplicationFrom(reqs, 1, {})
    ELSE nil

\* a slip: requests without a name are left to the check of the loop
checkNameDuplication_namedOnly(reqs) ==
    checkNameDuplicationFrom(SelectSeq(reqs, LAMBDA r : r.Name # ""), 1, {})

\* OCISecretService.checkNameDuplication
checkNameDuplication(reqs) == checkNameDuplicationFrom(reqs, 1, {})

\* a slip: the version number is always sent, also when the request has none
mapToOCIRequest_versionAlways(vault, request) ==
    LET ociSecretStage == GetMappingGetSecretBundleByNameStageEnum(Stage_String(request.Stage))
    IN  [SecretName    |-> request.Name,
         VaultId       |-> vault,
         VersionNumber |-> <<request.VersionNumber>>,
         Stage         |-> IF request.Stage # None /\ ociSecretStage.ok
                           THEN ociSecretStage.enum ELSE ""]

\* OCISecretService.mapToOCIRequest
mapToOCIRequest(vault, request) ==
    LET ociSecretStage == GetMappingGetSecretBundleByNameStageEnum(Stage_String(request.Stage))
    IN  [SecretName    |-> request.Name,
         VaultId       |-> vault,
         VersionNumber |-> IF request.VersionNumber # 0 THEN <<request.VersionNumber>> ELSE <<>>,
         Stage         |-> IF request.Stage # None /\ ociSecretStage.ok
                           THEN ociSecretStage.enum ELSE ""]

\* a slip: a remote stage token that is not known is skipped
RECURSIVE mapStages_skip(_, _, _)
mapStages_skip(ociStages, k, stages) ==
    IF k > Len(ociStages) THEN [stages |-> stages, err |-> nil]
    ELSE LET r == Stage_FromString(None, ociStages[k])
         IN  IF r.err # nil THEN mapStages_skip(ociStages, k + 1, stages)
             ELSE mapStages_skip(ociStages, k + 1, Append(stages, r.stage))

\* the loop of mapOCIResponseToSecretBundle over the remote stages, from position k
RECURSIVE mapStages(_, _, _)
mapStages(ociStages, k, stages) ==
    IF k > Len(ociStages) THEN [stages |-> stages, err |-> nil]
    ELSE LET r == Stage_FromString(None, ociStages[k])
         IN  IF r.err # nil THEN [stages |-> <<>>, err |-> r.err]
             ELSE mapStages(ociStages, k + 1, Append(stages, r.stage))

\* a slip: the bundle loses the file alias of its request
mapOCIResponseToSecretBundle_noAlias(ociSecretBundle, request) ==
    IF ociSecretBundle.ContentKind # Base64SecretBundleContentDetails
    THEN [bundle |-> NULL, err |-> "unable to cast secret content"]
    ELSE LET m == mapStages(ociSecretBundle.Stages, 1, <<>>)
         IN  IF m.err # nil THEN [bundle |-> NULL, err |-> m.err]
             ELSE [bundle |-> [ID            |-> ociSecretBundle.SecretId,
                               Name          |-> request.Name,
                               VersionNumber |-> ociSecretBundle.VersionNumber,
                               Stages        |-> m.stages,
                               FileName      |-> "",
                               BundleContent |-> [ContentType |-> Base64,
                                                  Content     |-> ociSecretBundle.Content]],
                   err |-> nil]

\* a slip: the bundle carries the version number of its request
mapOCIResponseToSecretBundle_requestVersion(ociSecretBundle, request) ==
    IF ociSecretBundle.ContentKind # Base64SecretBundleContentDetails
    THEN [bundle |-> NULL, err |-> "unable to cast secret content"]
    ELSE LET m == mapStages(ociSecretBundle.Stages, 1, <<>>)
         IN  IF m.err # nil THEN [bundle |-> NULL, err |-> m.err]
             ELSE [bundle |-> [ID            |-> ociSecretBundle.SecretId,
                               Name          |-> request.Name,
                               VersionNumber |-> request.VersionNumber,
                               Stages        |-> m.stages,
                               FileName      |-> request.FileName,
                               BundleContent |-> [ContentType |-> Base64,
                                                  Content     |-> ociSecretBundle.Content]],
                   err |-> nil]

\* OCISecretService.mapOCIResponseToSecretBundle
mapOCIResponseToSecretBundle(ociSecretBundle, request) ==
    IF ociSecretBundle.ContentKind # Base64SecretBundleContentDetails
    THEN [bundle |-> NULL, err |-> "unable to cast secret content"]
    ELSE LET m == mapStages(ociSecretBundle.Stages, 1, <<>>)
         IN  IF m.err # nil THEN [bundle |-> NULL, err |-> m.err]
             ELSE [bundle |-> [ID            |-> ociSecretBundle.SecretId,
                               Name          |-> request.Name,
                               VersionNumber |-> ociSecretBundle.VersionNumber,
                               Stages        |-> m.stages,
                               FileName      |-> request.FileName,
                               BundleContent |-> [ContentType |-> Base64,
                                                  Content     |-> ociSecretBundle.Content]],
                   err |-> nil]

\* a slip: the default stage is never applied
defaultStage_missing(request) == request

\* a slip: the default stage is written whenever the request names no stage
defaultStage_noStage(request) ==
    IF request.Stage = None
    THEN [request EXCEPT !.Stage = Current]
    ELSE request

\* the request as getSecretBundle leaves it: the default stage is written
\* into the caller's request object
defaultStage(request) ==
    IF request.VersionNumber = 0 /\ request.Stage = None
    THEN [request EXCEPT !.Stage = Current]
    ELSE request

\* a slip: the request is validated only after the vault has answered
getSecretBundle_fetchFirst(mocks, vault, request) ==
    LET req == defaultStage(request)
        ociRequest == mapToOCIRequest(vault, req)
        r == GetSecretBundleByName(mocks, ociRequest)
        fetch == [op |-> "GetSecretBundleByName", request |-> ociRequest]
    IN  IF request.Name = ""
        THEN [request |-> req, fetched |-> <<fetch>>, bundle |-> NULL,
              err |-> "missed secret name"]
        ELSE IF req.VersionNumber # 0 /\ req.Stage # None
        THEN [request |-> req, fetched |-> <<fetch>>, bundle |-> NULL,
              err |-> "secret should be identified either with a version number or with stage"]
        ELSE IF r.err # nil
        THEN [request |-> req, fetched |-> <<fetch>>, bundle |-> NULL,
              err |-> "unable to retrieve secret from vault"]
        ELSE LET m == mapOCIResponseToSecretBundle(r.response, req)
             IN  [request |-> req, fetched |-> <<fetch>>, bundle |-> m.bundle, err |-> m.err]

\* a slip: a fetch the vault refuses is issued a second time
getSecretBundle_retry(mocks, vault, request) ==
    IF request.Name = ""
    THEN [request |-> request, fetched |-> <<>>, bundle |-> NULL, err |-> "missed secret name"]
    ELSE LET req == defaultStage(request)
         IN  IF req.VersionNumber # 0 /\ req.Stage # None
             THEN [request |-> req, fetched |-> <<>>, bundle |-> NULL,
                   err |-> "secret should be identified either with a version number or with stage"]
             ELSE LET ociRequest == mapToOCIRequest(vault, req)
                      r == GetSecretBundleByName(mocks, ociRequest)
                      fetch == [op |-> "GetSecretBundleByName", request |-> ociRequest]
                  IN  IF r.err # nil
                      THEN [request |-> req, fetched |-> <<fetch, fetch>>, bundle |-> NULL,
                            err |-> "unable to retrieve secret from vault"]
                      ELSE LET m == mapOCIResponseToSecretBundle(r.response, req)
                           IN  [request |-> req, fetched |-> <<fetch>>,
                                bundle |-> m.bundle, err |-> m.err]

\* OCISecretService.getSecretBundle: the request object afterwards, the remote
\* fetches it issued, the bundle and the error
getSecretBundle(mocks, vault, request) ==
    IF request.Name = ""
    THEN [request |-> request, fetched |-> <<>>, bundle |-> NULL, err |-> "missed secret name"]
    ELSE LET req == defaultStage(request)
         IN  IF req.VersionNumber # 0 /\ req.Stage # None
             THEN [request |-> req, fetched |-> <<>>, bundle |-> NULL,
                   err |-> "secret should be identified either with a version number or with stage"]
             ELSE LET ociRequest == mapToOCIRequest(vault, req)
                      r == GetSecretBundleByName(mocks, ociRequest)
                      fetch == [op |-> "GetSecretBundleByName", request |-> ociRequest]
                  IN  IF r.err # nil
                      THEN [request |-> req, fetched |-> <<fetch>>, bundle |-> NULL,
                            err |-> "unable to retrieve secret from vault"]
                      ELSE LET m == mapOCIResponseToSecretBundle(r.response, req)
                           IN  [request |-> req, fetched |-> <<fetch>>,
                                bundle |-> m.bundle, err |-> m.err]

\* OCISecretClientFactory.createConfigProvider: ok is whether the SDK could
\* build the provider (the instance and workload providers reach out to the
\* network and may fail; the raw provider of the user principal cannot)
createConfigProvider(authCfg, ok) ==
    CASE authCfg.Type = Instance ->
            IF ok THEN nil ELSE "failed to create a new key provider for instance principal"
      [] authCfg.Type = User -> nil
      [] authCfg.Type = Workload ->
            IF ok THEN nil ELSE "failed to create a workload identity provider"
      [] OTHER -> "unable to determine OCI principal type for configuration provider"

\* OCISecretClientFactory.createSecretClient: ok is whether the SDK accepted
\* the configuration provider
createSecretClient(ok) == IF ok THEN nil ELSE "can not create client, bad configuration"

\* a slip: an empty batch is not refused
requestsMissed_never(reqs) == FALSE

\* the first check of GetSecretBundles: the batch is nil or empty
requestsMissed(reqs) == Len(reqs) = 0

\* GetSecretBundles up to the loop: the emptiness check, the duplicate check
\* and the two factory calls
GetSecretBundles ==
    /\ pc = "GetSecretBundles"
    /\ UNCHANGED <<unit, ctx, grpcRequest, parked>>
    /\ UNCHANGED <<mountRequest, requests, requests0, auth, vaultID, apiCallMocks,
                   response, mountErr>>
    /\ IF requestsMissed(requests)
       THEN /\ bundles' = <<>> /\ err' = "requested secrets are missed"
            /\ pc' = "returned"
            /\ UNCHANGED <<i, secretBundles, calls>>
       ELSE IF checkNameDuplication(requests) = NilDereference
       THEN /\ pc' = "panicked"
            /\ UNCHANGED <<i, secretBundles, bundles, err, calls>>
       ELSE IF checkNameDuplication(requests) # nil
       THEN /\ bundles' = <<>> /\ err' = checkNameDuplication(requests)
            /\ pc' = "returned"
            /\ UNCHANGED <<i, secretBundles, calls>>
       ELSE \E providerOk \in BOOLEAN, clientOk \in BOOLEAN :
            LET e1 == createConfigProvider(auth, providerOk)
                c1 == [op |-> "createConfigProvider", principalType |-> auth.Type]
                e2 == createSecretClient(clientOk)
                c2 == [op |-> "createSecretClient"]
            IN  IF e1 # nil
                THEN /\ bundles' = <<>> /\ err' = e1
                     /\ pc' = "returned"
                     /\ calls' = Append(calls, c1)
                     /\ UNCHANGED <<i, secretBundles>>
                ELSE IF e2 # nil
                THEN /\ bundles' = <<>> /\ err' = e2
                     /\ pc' = "returned"
                     /\ calls' = calls \o <<c1, c2>>
                     /\ UNCHANGED <<i, secretBundles>>
                ELSE /\ secretBundles' = [k \in 1..Len(requests) |-> NULL]
                     /\ i' = 1
                     /\ calls' = calls \o <<c1, c2>>
                     /\ IF Len(requests) = 0
                        THEN /\ bundles' = <<>> /\ err' = nil
                             /\ pc' = "returned"
                        ELSE /\ pc' = "getSecretBundle"
                             /\ UNCHANGED <<bundles, err>>

\* a slip: the fetch is issued under context.Background() and outlives the
\* deadline of the invocation
secretClient_background(c, mocks) == mocks

\* the client as getSecretBundle calls it under the context c of the
\* invocation: under a context whose deadline has passed the call is given up
\* and returns an error whatever the vault holds (getSecretBundle drops the
\* text of the client's error)
secretClient(c, mocks) == IF c = DeadlineExceeded THEN <<>> ELSE mocks

\* a slip: the bundles fetched so far are returned next to the error
failedRequest_partial(sb, e) ==
    [bundles |-> SelectSeq(sb, LAMBDA b : b # NULL), err |-> e]

\* what GetSecretBundles returns when a request of the loop fails
failedRequest(sb, e) == [bundles |-> <<>>, err |-> e]

\* one iteration of the loop of GetSecretBundles, and the return after the
\* last one
GetSecretBundlesLoop ==
    /\ pc = "getSecretBundle"
    /\ i <= Len(requests)
    /\ UNCHANGED <<unit, ctx, grpcRequest, parked>>
    /\ UNCHANGED <<mountRequest, requests0, auth, vaultID, apiCallMocks, response, mountErr>>
    /\ LET r == getSecretBundle(secretClient(ctx, apiCallMocks), vaultID, requests[i])
       IN  /\ requests' = [requests EXCEPT ![i] = r.request]
           /\ calls' = calls \o r.fetched
           /\ IF r.err # nil
              THEN /\ bundles' = failedRequest(secretBundles, r.err).bundles
                   /\ err' = failedRequest(secretBundles, r.err).err
                   /\ pc' = "returned"
                   /\ UNCHANGED <<i, secretBundles>>
              ELSE /\ secretBundles' = [secretBundles EXCEPT ![i] = r.bundle]
                   /\ i' = i + 1
                   /\ IF i = Len(requests)
                      THEN /\ bundles' = secretBundles' /\ err' = nil
                           /\ pc' = "returned"
                      ELSE UNCHANGED <<bundles, err, pc>>

-----------------------------------------------------------------------------
(* numbers and encodings *)

Digits == "0123456789"

IsDigit(c) == \E k \in 1..10 : SubSeq(Digits, k, k) = c

DigitValue(c) == (CHOOSE k \in 1..10 : SubSeq(Digits, k, k) = c) - 1

AllDigits(s) == \A k \in 1..Len(s) : IsDigit(SubSeq(s, k, k))

RECURSIVE ParseDigits(_, _)
ParseDigits(s, acc) ==
    IF Len(s) = 0 THEN acc ELSE ParseDigits(Tail(s), acc * 10 + DigitValue(Head(s)))

\* strconv.ParseInt(s, 10, 64); the scalars of the model have at most nine
\* digits, so the range check of the 64-bit result never fails
ParseInt(s) ==
    LET signed == Len(s) > 0 /\ Head(s) \in {"+", "-"}
        body == IF signed THEN Tail(s) ELSE s
        magnitude == ParseDigits(body, 0)
        value == IF signed /\ Head(s) = "-" THEN 0 - magnitude ELSE magnitude
    IN  IF Len(body) = 0 \/ ~AllDigits(body)
        THEN [value |-> 0, ok |-> FALSE]
        ELSE [value |-> value, ok |-> TRUE]

RECURSIVE FormatUint(_)
FormatUint(n) ==
    IF n < 10 THEN SubSeq(Digits, n + 1, n + 1)
    ELSE FormatUint(n \div 10) \o SubSeq(Digits, (n % 10) + 1, (n % 10) + 1)

\* strconv.FormatInt(n, 10)
FormatInt(n) == IF n < 0 THEN "-" \o FormatUint(0 - n) ELSE FormatUint(n)

MaxInt32 == 2147483647

\* the conversion int32(x) of an unsigned 32-bit value x: x - 2^32 from 2^31 on
Int32(x) == IF x <= MaxInt32 THEN x ELSE ((x - MaxInt32) - MaxInt32) - 2

Base64Alphabet == "ABCDEFGHIJKLMNOPQRSTUVWXYZabcdefghijklmnopqrstuvwxyz0123456789+/"

InBase64Alphabet(c) == \E k \in 1..64 : SubSeq(Base64Alphabet, k, k) = c

Base64Value(c) == (CHOOSE k \in 1..64 : SubSeq(Base64Alphabet, k, k) = c) - 1

\* base64.StdEncoding.DecodeString, quantum by quantum: the bytes and whether
\* the input was well-formed (padding is required and only ends the input)
RECURSIVE DecodeQuanta(_, _)
DecodeQuanta(s, out) ==
    IF Len(s) = 0 THEN [bytes |-> out, ok |-> TRUE]
    ELSE IF Len(s) < 4 THEN [bytes |-> out, ok |-> FALSE]
    ELSE LET c1 == SubSeq(s, 1, 1)
             c2 == SubSeq(s, 2, 2)
             c3 == SubSeq(s, 3, 3)
             c4 == SubSeq(s, 4, 4)
             last == Len(s) = 4
             v1 == Base64Value(c1)
             v2 == Base64Value(c2)
             v3 == Base64Value(c3)
             v4 == Base64Value(c4)
             b1 == v1 * 4 + (v2 \div 16)
             b2 == (v2 % 16) * 16 + (v3 \div 4)
             b3 == (v3 % 4) * 64 + v4
         IN  IF ~InBase64Alphabet(c1) \/ ~InBase64Alphabet(c2)
             THEN [bytes |-> out, ok |-> FALSE]
             ELSE IF c3 = "="
             THEN IF last /\ c4 = "="
                  THEN [bytes |-> Append(out, b1), ok |-> TRUE]
                  ELSE [bytes |-> out, ok |-> FALSE]
             ELSE IF ~InBase64Alphabet(c3)
             THEN [bytes |-> out, ok |-> FALSE]
             ELSE IF c4 = "="
             THEN IF last
                  THEN [bytes |-> out \o <<b1, b2>>, ok |-> TRUE]
                  ELSE [bytes |-> out, ok |-> FALSE]
             ELSE IF ~InBase64Alphabet(c4)
             THEN [bytes |-> out, ok |-> FALSE]
             ELSE DecodeQuanta(SubSeq(s, 5, Len(s)), out \o <<b1, b2, b3>>)

DecodeString(s) == DecodeQuanta(s, <<>>)

\* a slip: the encoding is looked at before the content
Decode_typeFirst(content) ==
    IF content.ContentType # Base64
    THEN [value |-> <<>>, err |-> "unknown content type"]
    ELSE IF content.Content = ""
    THEN [value |-> <<>>, err |-> "missed secret content"]
    ELSE LET d == DecodeString(content.Content)
         IN  [value |-> d.bytes,
              err |-> IF d.ok THEN nil ELSE "illegal base64 data"]

\* (*SecretBundleContent).Decode: the plain text as bytes, and the error
Decode(content) ==
    IF content.Content = ""
    THEN [value |-> <<>>, err |-> "missed secret content"]
    ELSE IF content.ContentType # Base64
    THEN [value |-> <<>>, err |-> "unknown content type"]
    ELSE LET d == DecodeString(content.Content)
         IN  [value |-> d.bytes,
              err |-> IF d.ok THEN nil ELSE "illegal base64 data"]

\* a slip: only a negative version number is refused
VersionNumber_UnmarshalYAML_zero(value) ==
    IF value = "" THEN [versionNumber |-> 0, err |-> nil]
    ELSE LET p == ParseInt(value)
         IN  IF ~p.ok THEN [versionNumber |-> 0, err |-> "strconv.ParseInt: parsing: invalid syntax"]
             ELSE IF p.value < 0
             THEN [versionNumber |-> 0, err |-> "version number should be positive"]
             ELSE [versionNumber |-> p.value, err |-> nil]

\* (*VersionNumber).UnmarshalYAML on a scalar node of the given value
VersionNumber_UnmarshalYAML(value) ==
    IF value = "" THEN [versionNumber |-> 0, err |-> nil]
    ELSE LET p == ParseInt(value)
         IN  IF ~p.ok THEN [versionNumber |-> 0, err |-> "strconv.ParseInt: parsing: invalid syntax"]
             ELSE IF p.value <= 0
             THEN [versionNumber |-> 0, err |-> "version number should be positive"]
             ELSE [versionNumber |-> p.value, err |-> nil]

\* a slip: a type that is not known falls back to the instance principal
MapToPrincipalType_fallback(authType) ==
    IF authType \in {Instance, User, Workload}
    THEN [principalType |-> authType, err |-> nil]
    ELSE [principalType |-> Instance, err |-> nil]

\* MapToPrincipalType
MapToPrincipalType(authType) ==
    IF authType \in {Instance, User, Workload}
    THEN [principalType |-> authType, err |-> nil]
    ELSE [principalType |-> "", err |-> "unknown OCI principal type: " \o authType]

-----------------------------------------------------------------------------
(* internal/server *)

\* attributes' fields
secretsField == "secrets"
authTypeField == "authType"
authConfigSecretNameField == "authSecretName"
vaultIDField == "vaultId"
podNameField == "csi.storage.k8s.io/pod.name"
podNamespaceField == "csi.storage.k8s.io/pod.namespace"
podUIDField == "csi.storage.k8s.io/pod.uid"
podServiceAccountField == "csi.storage.k8s.io/serviceAccount.name"

\* a gRPC status error, and the status of a nil error
Status(code, msg) == [code |-> code, msg |-> msg]
OK == Status("OK", "")

\* an error that carries no gRPC status: status.Code reports it as Unknown
PlainError(msg) == Status("Unknown", msg)

\* reading a key of a map[string]string: the zero value when it is missing
Lookup(m, key) == IF key \in DOMAIN m THEN m[key] ELSE ""

\* ProviderServer.unmarshalRequestAttributes: the attribute string is given by
\* what its JSON text is, a map of strings to strings or anything else
unmarshalRequestAttributes(attributesString) ==
    IF attributesString.stringMap
    THEN [attributes |-> attributesString.members, err |-> nil]
    ELSE [attributes |-> <<>>, err |-> "json: cannot unmarshal into Go value of type map[string]string"]

\* the fields of SecretBundleRequest the strict decoder knows
KnownFields == {"name", "stage", "versionNumber", "fileName"}

\* a null entry of a YAML list
NullNode == [kind |-> "null"]

\* decoding one entry of the secrets list, a mapping of field names to scalars
\* or a null: a null decodes to a nil pointer without error
decodeSecretBundleRequest(node) ==
    LET field(f) == Lookup(node, f)
        stage == Stage_FromString(None, field("stage"))
        version == VersionNumber_UnmarshalYAML(field("versionNumber"))
    IN  IF node = NullNode THEN [request |-> NULL, err |-> nil]
        ELSE IF ~(DOMAIN node \subseteq KnownFields)
        THEN [request |-> NULL, err |-> "field not found in type types.SecretBundleRequest"]
        ELSE IF "stage" \in DOMAIN node /\ stage.err # nil
        THEN [request |-> NULL, err |-> stage.err]
        ELSE IF "versionNumber" \in DOMAIN node /\ version.err # nil
        THEN [request |-> NULL, err |-> version.err]
        ELSE [request |-> SecretBundleRequest(field("name"),
                                              IF "stage" \in DOMAIN node THEN stage.stage ELSE None,
                                              IF "versionNumber" \in DOMAIN node
                                              THEN version.versionNumber ELSE 0,
                                              field("fileName")),
              err |-> nil]

\* decoding the entries of the secrets list from position k on
RECURSIVE decodeSecretBundleRequests(_, _, _)
decodeSecretBundleRequests(items, k, out) ==
    IF k > Len(items) THEN [requests |-> out, err |-> nil]
    ELSE LET d == decodeSecretBundleRequest(items[k])
         IN  IF d.err # nil THEN [requests |-> <<>>, err |-> d.err]
             ELSE decodeSecretBundleRequests(items, k + 1, Append(out, d.request))

\* a slip: a missing secrets attribute is read as an empty batch
retrieveSecretRequests_lenient(requestAttributes) ==
    IF secretsField \notin DOMAIN requestAttributes
    THEN [requests |-> <<>>, err |-> nil]
    ELSE LET secretsYaml == requestAttributes[secretsField]
         IN  IF secretsYaml.kind = "empty"
             THEN [requests |-> <<>>,
                   err |-> "missed content of SecretProviderClass parameter \"secrets\""]
             ELSE IF secretsYaml.kind = "null"
             THEN [requests |-> <<>>, err |-> nil]
             ELSE IF secretsYaml.kind # "sequence"
                     \/ decodeSecretBundleRequests(secretsYaml.items, 1, <<>>).err # nil
             THEN [requests |-> <<>>,
                   err |-> "failed to unmarshal SecretProviderClass parameter \"secrets\""]
             ELSE [requests |-> decodeSecretBundleRequests(secretsYaml.items, 1, <<>>).requests,
                   err |-> nil]

\* ProviderServer.retrieveSecretRequests: the secrets attribute is given by
\* the YAML document its text is: no text, a null, another scalar, or a
\* sequence of mappings; a null decodes to the nil slice
retrieveSecretRequests(requestAttributes) ==
    IF secretsField \notin DOMAIN requestAttributes
    THEN [requests |-> <<>>, err |-> "missed \"secrets\" SecretProviderClass parameters"]
    ELSE LET secretsYaml == requestAttributes[secretsField]
         IN  IF secretsYaml.kind = "empty"
             THEN [requests |-> <<>>,
                   err |-> "missed content of SecretProviderClass parameter \"secrets\""]
             ELSE IF secretsYaml.kind = "null"
             THEN [requests |-> <<>>, err |-> nil]
             ELSE IF secretsYaml.kind # "sequence"
                     \/ decodeSecretBundleRequests(secretsYaml.items, 1, <<>>).err # nil
             THEN [requests |-> <<>>,
                   err |-> "failed to unmarshal SecretProviderClass parameter \"secrets\""]
             ELSE [requests |-> decodeSecretBundleRequests(secretsYaml.items, 1, <<>>).requests,
                   err |-> nil]

\* a slip: validation stops at the first required field that is missing
validateConfig_firstOnly(c) ==
    IF Len(c.TenancyID) = 0 THEN <<"Auth.Tenancy">>
    ELSE IF Len(c.Region) = 0 THEN <<"Auth.Region">>
    ELSE IF Len(c.Fingerprint) = 0 THEN <<"Auth.Fingerprint">>
    ELSE IF Len(c.UserID) = 0 THEN <<"Auth.UserID">>
    ELSE IF Len(c.PrivateKey) = 0 THEN <<"Auth.PrivateKey">>
    ELSE <<>>

\* validateConfig: the required fields that are missing, in the order checked
validateConfig(c) ==
    (IF Len(c.TenancyID) = 0 THEN <<"Auth.Tenancy">> ELSE <<>>) \o
    (IF Len(c.Region) = 0 THEN <<"Auth.Region">> ELSE <<>>) \o
    (IF Len(c.Fingerprint) = 0 THEN <<"Auth.Fingerprint">> ELSE <<>>) \o
    (IF Len(c.UserID) = 0 THEN <<"Auth.UserID">> ELSE <<>>) \o
    (IF Len(c.PrivateKey) = 0 THEN <<"Auth.PrivateKey">> ELSE <<>>)

\* the messages of the field.Required errors, joined
RECURSIVE JoinRequired(_)
JoinRequired(errs) ==
    IF Len(errs) = 0 THEN ""
    ELSE Head(errs) \o ": Required value: " \o SubSeq(Head(errs), 6, Len(Head(errs)))
         \o " is required for user principal"
         \o (IF Len(errs) > 1 THEN ", " ELSE "") \o JoinRequired(Tail(errs))

\* (*AuthConfig).Validate: ErrorList.ToAggregate gives nil for no error, the
\* message of a single error, and the bracketed list of several
Validate(c) ==
    LET errs == validateConfig(c)
    IN  IF errs = <<>> THEN nil
        ELSE IF Len(errs) = 1 THEN JoinRequired(errs)
        ELSE "[" \o JoinRequired(errs) \o "]"

\* parseAuthConfig: the config value of the secret is given by the YAML
\* document its text is (well-formed or not, with an auth mapping or without);
\* writing the private key into an absent mapping panics
parseAuthConfig(secret, authConfigSecretName) ==
    LET config == secret.Data["config"]
        privateKey == Lookup(secret.Data, "private-key")
        merged == [k \in DOMAIN config.auth \cup {"privateKey"} |->
                      IF k = "privateKey" THEN privateKey ELSE config.auth[k]]
    IN  IF ~config.wellFormed
        THEN [authCfg |-> NoConfig, err |-> "invalid auth config data: " \o authConfigSecretName,
              panic |-> FALSE]
        ELSE IF Len(privateKey) = 0
        THEN [authCfg |-> NoConfig,
              err |-> "invalid user auth config data: " \o authConfigSecretName,
              panic |-> FALSE]
        ELSE IF ~config.hasAuth
        THEN [authCfg |-> NoConfig, err |-> nil, panic |-> TRUE]
        ELSE [authCfg |-> [Region      |-> Lookup(merged, "region"),
                           TenancyID   |-> Lookup(merged, "tenancy"),
                           UserID      |-> Lookup(merged, "user"),
                           PrivateKey  |-> Lookup(merged, "privateKey"),
                           Fingerprint |-> Lookup(merged, "fingerprint"),
                           Passphrase  |-> Lookup(merged, "passphrase")],
              err |-> nil, panic |-> FALSE]

\* ProviderServer.retrieveAuthConfig: k8sSecret is what the cluster answers
\* to the lookup of the auth secret, saToken what it answers to the token
\* request; the result carries the external calls made
retrieveAuthConfig(requestAttributes, namespace, k8sSecret, saToken) ==
    LET authType == Lookup(requestAttributes, authTypeField)
        principal == MapToPrincipalType(authType)
        authConfigSecretName == Lookup(requestAttributes, authConfigSecretNameField)
        readK8sSecret == [op |-> "readK8sSecret", namespace |-> namespace,
                          secretName |-> authConfigSecretName]
        getSAToken == [op |-> "getSAToken",
                       name |-> Lookup(requestAttributes, podNameField),
                       uid |-> Lookup(requestAttributes, podUIDField),
                       serviceAccount |-> Lookup(requestAttributes, podServiceAccountField),
                       namespace |-> Lookup(requestAttributes, podNamespaceField)]
        failed(msg, cs) == [auth |-> NULL, err |-> msg, calls |-> cs, panic |-> FALSE]
    IN  IF authTypeField \notin DOMAIN requestAttributes
        THEN failed("missed \"authType\" SecretProviderClass parameters", <<>>)
        ELSE IF principal.err # nil
        THEN failed("invalid auth principal type, " \o authType, <<>>)
        ELSE IF principal.principalType = User
        THEN IF authConfigSecretNameField \notin DOMAIN requestAttributes
             THEN failed("missed \"authSecretName\" SecretProviderClass parameters", <<>>)
             ELSE IF k8sSecret.err # nil
             THEN failed("error retrieving secret: " \o authConfigSecretName, <<readK8sSecret>>)
             ELSE IF "config" \notin DOMAIN k8sSecret.Data
                     \/ k8sSecret.Data["config"].empty
             THEN failed("auth config data is empty: " \o authConfigSecretName, <<readK8sSecret>>)
             ELSE LET parsed == parseAuthConfig(k8sSecret, authConfigSecretName)
                  IN  IF parsed.panic
                      THEN [auth |-> NULL, err |-> nil, calls |-> <<readK8sSecret>>,
                            panic |-> TRUE]
                      ELSE IF parsed.err # nil
                      THEN failed("missing auth config data: " \o parsed.err, <<readK8sSecret>>)
                      ELSE IF Validate(parsed.authCfg) # nil
                      THEN failed("missing auth config data: " \o Validate(parsed.authCfg),
                                  <<readK8sSecret>>)
                      ELSE [auth |-> Auth(User, parsed.authCfg, ""), err |-> nil,
                            calls |-> <<readK8sSecret>>, panic |-> FALSE]
        ELSE IF principal.principalType = Workload
        THEN IF saToken.err # nil
             THEN failed("can not generate token for service account: "
                            \o Lookup(requestAttributes, podServiceAccountField)
                            \o ", namespace: " \o Lookup(requestAttributes, podNamespaceField),
                         <<getSAToken>>)
             ELSE [auth |-> Auth(Workload, NoConfig, saToken.token), err |-> nil,
                   calls |-> <<getSAToken>>, panic |-> FALSE]
        ELSE [auth |-> Auth(principal.principalType, NoConfig, ""), err |-> nil,
              calls |-> <<>>, panic |-> FALSE]

\* json.Unmarshal of the permission string into an os.FileMode, which starts
\* as zero: a JSON null leaves it, a number without sign, fraction, exponent
\* or leading zero sets it, anything else is an error
unmarshalFilePermission(permission) ==
    IF permission = "null" THEN [filePermission |-> 0, err |-> nil]
    ELSE IF Len(permission) = 0 \/ ~AllDigits(permission)
            \/ (Len(permission) > 1 /\ Head(permission) = "0")
    THEN [filePermission |-> 0, err |-> "failed to unmarshal file permission"]
    ELSE [filePermission |-> ParseDigits(permission, 0), err |-> nil]

\* a slip: the file is named after the secret although it has an alias
mapBundleToSecretResponse_nameOnly(bundle, filePermission) ==
    LET secretContent == Decode(bundle.BundleContent)
    IN  IF secretContent.err # nil
        THEN [file |-> NULL, objectVersion |-> NULL, err |-> secretContent.err]
        ELSE [file |-> [Path     |-> TrimSpace(bundle.Name),
                        Contents |-> secretContent.value,
                        Mode     |-> filePermission],
              objectVersion |-> [Id      |-> bundle.ID,
                                 Version |-> FormatInt(bundle.VersionNumber)],
              err |-> nil]

\* ProviderServer.mapBundleToSecretResponse
mapBundleToSecretResponse(bundle, filePermission) ==
    LET secretContent == Decode(bundle.BundleContent)
    IN  IF secretContent.err # nil
        THEN [file |-> NULL, objectVersion |-> NULL, err |-> secretContent.err]
        ELSE [file |-> [Path     |-> GetFilePath(bundle),
                        Contents |-> secretContent.value,
                        Mode     |-> filePermission],
              objectVersion |-> [Id      |-> bundle.ID,
                                 Version |-> FormatInt(bundle.VersionNumber)],
              err |-> nil]

\* the loop of createResponse from position k on
RECURSIVE createResponseFrom(_, _, _, _, _)
createResponseFrom(sb, filePermission, k, files, versions) ==
    IF k > Len(sb)
    THEN [response |-> [Files |-> files, ObjectVersion |-> versions], err |-> nil]
    ELSE LET m == mapBundleToSecretResponse(sb[k], filePermission)
         IN  IF m.err # nil THEN [response |-> NULL, err |-> m.err]
             ELSE createResponseFrom(sb, filePermission, k + 1,
                                     [files EXCEPT ![k] = m.file],
                                     [versions EXCEPT ![k] = m.objectVersion])

\* a slip: the versions are appended in front, so they end up in reverse order
createResponse_reversed(sb, filePermission) ==
    LET r == createResponseFrom(sb, filePermission, 1,
                                [k \in 1..Len(sb) |-> NULL], [k \in 1..Len(sb) |-> NULL])
    IN  IF r.err # nil THEN r
        ELSE [response |-> [Files |-> r.response.Files,
                            ObjectVersion |-> [k \in 1..Len(sb) |->
                                                  r.response.ObjectVersion[Len(sb) + 1 - k]]],
              err |-> nil]

\* ProviderServer.createResponse
createResponse(sb, filePermission) ==
    createResponseFrom(sb, filePermission, 1,
                       [k \in 1..Len(sb) |-> NULL], [k \in 1..Len(sb) |-> NULL])

-----------------------------------------------------------------------------
(* inputs *)

\* the longest request batch
MaxBatch == 3

Names == {"", "a", " a", "b"}
FileNames == {"", "a", "q"}

\* the requests a batch is made of: every name with and without an alias, and
\* for the plain names every way of selecting a version
Requests ==
    {r \in [Name : Names, Stage : {None, Current, Previous}, VersionNumber : {0, 1},
            FileName : FileNames] :
        /\ (r.FileName # "" \/ r.Name \in {"", " a"}) => (r.Stage = None /\ r.VersionNumber = 0)
        /\ r.Stage = Previous => (r.Name = "b" /\ r.VersionNumber = 0)
        /\ r.Name \in {"", " a"} => r.FileName # "a"}

Batches == UNION {[1..n -> Requests] : n \in 0..MaxBatch}

\* the principals GetSecretBundles is called with directly; the last one has a
\* type no factory branch knows
ServiceAuths == {Auth(Instance, NoConfig, ""), Auth(User, NoConfig, ""), Auth("", NoConfig, "")}

\* a vault in which every secret the batches name is well-formed; version 1 of
\* b carries the empty stage token, the token of the stage None, and is
\* answered with version 4; the names are looked up as they are sent, also
\* those with blanks
HealthyVault ==
    << apiCallMock("a", 0, "CURRENT", "ocid.a", 2, <<"CURRENT", "LATEST">>,
                   Base64SecretBundleContentDetails, "YmFyMQ=="),
       apiCallMock("a", 1, "", "ocid.a", 1, <<"PREVIOUS">>,
                   Base64SecretBundleContentDetails, "YmFy"),
       apiCallMock("a", 0, "", "ocid.a", 3, <<"PENDING">>,
                   Base64SecretBundleContentDetails, "Zm9v"),
       apiCallMock("b", 0, "CURRENT", "ocid.b", 1, <<"CURRENT">>,
                   Base64SecretBundleContentDetails, "d29ybGQ="),
       apiCallMock("b", 0, "PREVIOUS", "ocid.b", 12, <<"PREVIOUS", "DEPRECATED">>,
                   Base64SecretBundleContentDetails, "aGk="),
       apiCallMock("b", 1, "", "ocid.b", 4, <<"">>,
                   Base64SecretBundleContentDetails, "aGk="),
       apiCallMock(" a", 0, "CURRENT", "ocid.c", 120, <<"CURRENT">>,
                   Base64SecretBundleContentDetails, "YmFy"),
       apiCallMock(" ", 0, "CURRENT", "ocid.d", 1, <<"CURRENT">>,
                   Base64SecretBundleContentDetails, "Zm9v") >>

\* a vault in which b is broken: an unknown stage token, a content of another
\* shape, and a version that does not exist; the content of version 1 of a
\* is not well-formed base64
BrokenVault ==
    << apiCallMock("a", 0, "CURRENT", "ocid.a", 2, <<"CURRENT", "LATEST">>,
                   Base64SecretBundleContentDetails, "YmFyMQ=="),
       apiCallMock("a", 1, "", "ocid.a", 1, <<"PREVIOUS">>,
                   Base64SecretBundleContentDetails, "aaa"),
       apiCallMock("b", 0, "CURRENT", "ocid.b", 1, <<"CURRENT", "ARCHIVED">>,
                   Base64SecretBundleContentDetails, "d29ybGQ="),
       apiCallMock("b", 0, "PREVIOUS", "ocid.b", 7, <<"PREVIOUS">>,
                   OtherContentDetails, "invalid content") >>

Vaults == {HealthyVault, BrokenVault}

-----------------------------------------------------------------------------
(* GetSecretBundles called directly, as the service tests call it *)

InitService ==
    /\ pc = "GetSecretBundles"
    /\ mountRequest = NULL
    /\ requests \in Batches
    /\ requests0 = requests
    /\ auth \in ServiceAuths
    /\ vaultID = "vault1"
    /\ apiCallMocks \in Vaults
    /\ i = 0
    /\ secretBundles = <<>>
    /\ bundles = <<>>
    /\ err = nil
    /\ calls = <<>>
    /\ response = NULL
    /\ mountErr = OK
    /\ unit = NULL
    /\ ctx = Background
    /\ grpcRequest = NULL
    /\ parked = NULL

NextService == GetSecretBundles \/ GetSecretBundlesLoop

SpecService == InitService /\ [][NextService]_vars

-----------------------------------------------------------------------------
(* Mount called by the driver *)

\* the longest secrets list of a mount request
MaxSecrets == 2

\* a YAML mapping with the given scalar fields: the empty string stands for a
\* field that the mapping does not have
Entry(name, stage, versionNumber, fileName) ==
    LET all == [f \in KnownFields |->
                   CASE f = "name" -> name [] f = "stage" -> stage
                     [] f = "versionNumber" -> versionNumber [] f = "fileName" -> fileName]
    IN  [f \in {g \in KnownFields : all[g] # ""} |-> all[f]]

\* the entries the secrets lists are made of
SecretNodes ==
    { Entry("a", "", "", ""),
      Entry("a", "", "1", ""),
      Entry("a", "", "", "q"),
      Entry("b", "CURRENT", "", ""),
      Entry("b", "", "", "q"),
      Entry("b", "PREVIOUS", "1", ""),
      Entry(" a", "", "", ""),
      Entry(" ", "", "", ""),
      Entry("", "", "", "q"),
      Entry("a", "current", "", ""),
      Entry("a", "", "0", ""),
      Entry("a", "", "-1", ""),
      [f \in {"name", "versionNumber"} |-> IF f = "name" THEN "a" ELSE ""],
      [f \in {"name", "redundantField"} |-> IF f = "name" THEN "a" ELSE "test"],
      NullNode }

\* the YAML documents of the secrets attribute
SecretsDocuments ==
    { [kind |-> "empty"], [kind |-> "null"],
      [kind |-> "scalar", value |-> "invalid-value"] } \cup
    { [kind |-> "sequence", items |-> items] :
          items \in UNION {[1..n -> SecretNodes] : n \in 0..MaxSecrets} }

\* the attributes of the mount requests: with the pod metadata the driver
\* adds, and with or without each parameter of the SecretProviderClass
PodAttributes ==
    [f \in {podNameField, podNamespaceField, podUIDField, podServiceAccountField} |->
        CASE f = podNameField -> "pod1" [] f = podNamespaceField -> "ns1"
          [] f = podUIDField -> "uid1" [] f = podServiceAccountField -> "sa1"]

AttributeMaps ==
    { [f \in DOMAIN PodAttributes \cup keys |->
          CASE f = secretsField -> secrets
            [] f = authTypeField -> authType
            [] f = authConfigSecretNameField -> "oci-auth"
            [] f = vaultIDField -> "vault1"
            [] OTHER -> PodAttributes[f]] :
        keys \in { {secretsField, authTypeField, vaultIDField},
                   {secretsField, authTypeField, vaultIDField, authConfigSecretNameField},
                   {secretsField, vaultIDField},
                   {authTypeField, vaultIDField} },
        secrets \in SecretsDocuments,
        authType \in {Instance, User, Workload, "group"} }

Permissions == {"292", "420", "rw"}

MountRequests ==
    { [Attributes |-> [stringMap |-> TRUE, members |-> m], Permission |-> p] :
          m \in AttributeMaps, p \in Permissions } \cup
    { [Attributes |-> [stringMap |-> FALSE, members |-> <<>>], Permission |-> "292"] }

\* a YAML document of the config value of an auth secret
ConfigDocument(fields) ==
    [empty |-> FALSE, wellFormed |-> TRUE, hasAuth |-> TRUE, auth |-> fields]

FullAuthFields ==
    [f \in {"tenancy", "user", "region", "fingerprint"} |->
        CASE f = "tenancy" -> "ocid1.tenancy" [] f = "user" -> "ocid1.user"
          [] f = "region" -> "us-ashburn-1" [] f = "fingerprint" -> "aa:bb"]

\* what the cluster may answer to the lookup of the auth secret
K8sSecrets ==
    { [err |-> "secrets \"oci-auth\" not found", Data |-> <<>>],
      [err |-> nil, Data |-> <<>>],
      [err |-> nil, Data |-> [f \in {"config", "private-key"} |->
          IF f = "config" THEN ConfigDocument(FullAuthFields) ELSE "PEM"]],
      [err |-> nil, Data |-> [f \in {"config", "private-key"} |->
          IF f = "config"
          THEN ConfigDocument([f2 \in {"tenancy", "user"} |-> FullAuthFields[f2]])
          ELSE "PEM"]],
      [err |-> nil, Data |-> [f \in {"config"} |-> ConfigDocument(FullAuthFields)]],
      [err |-> nil, Data |-> [f \in {"config", "private-key"} |->
          IF f = "config"
          THEN [empty |-> FALSE, wellFormed |-> TRUE, hasAuth |-> FALSE, auth |-> <<>>]
          ELSE "PEM"]] }

\* what the cluster may answer to the token request
SaTokens ==
    { [err |-> "unable to fetch token from token api", token |-> ""],
      [err |-> nil, token |-> "eyJ"] }

\* Mount up to the auth step: the attribute decode and the secrets parse
Mount ==
    /\ pc = "Mount"
    /\ UNCHANGED <<unit, ctx, grpcRequest, parked>>
    /\ UNCHANGED <<mountRequest, requests0, auth, vaultID, apiCallMocks, i, secretBundles,
                   bundles, err, calls, response>>
    /\ LET a == unmarshalRequestAttributes(mountRequest.Attributes)
           r == retrieveSecretRequests(a.attributes)
       IN  IF a.err # nil
           THEN /\ mountErr' = Status("InvalidArgument",
                      "failed to unmarshal SecretProviderClass parameters or attributes provided by driver")
                /\ pc' = "done"
                /\ UNCHANGED requests
           ELSE IF r.err # nil
           THEN /\ mountErr' = Status("InvalidArgument",
                      "unable to handle SecretProviderClass secrets: " \o r.err)
                /\ pc' = "done"
                /\ UNCHANGED requests
           ELSE /\ requests' = r.requests
                /\ pc' = "retrieveAuthConfig"
                /\ UNCHANGED mountErr

\* the auth step of Mount, and the call of GetSecretBundles it leads to
MountAuth ==
    /\ pc = "retrieveAuthConfig"
    /\ UNCHANGED <<unit, ctx, grpcRequest, parked>>
    /\ UNCHANGED <<mountRequest, requests, apiCallMocks, i, secretBundles, bundles, err,
                   response>>
    /\ \E k8sSecret \in K8sSecrets, saToken \in SaTokens :
          LET attributes == unmarshalRequestAttributes(mountRequest.Attributes).attributes
              namespace == Lookup(attributes, podNamespaceField)
              r == retrieveAuthConfig(attributes, namespace, k8sSecret, saToken)
          IN  /\ calls' = calls \o r.calls
              /\ IF r.panic
                 THEN /\ pc' = "panicked"
                      /\ UNCHANGED <<requests0, auth, vaultID, mountErr>>
                 ELSE IF r.err # nil
                 THEN /\ mountErr' = PlainError(r.err)
                      /\ pc' = "done"
                      /\ UNCHANGED <<requests0, auth, vaultID>>
                 ELSE /\ auth' = r.auth
                      /\ vaultID' = Lookup(attributes, vaultIDField)
                      /\ requests0' = requests
                      /\ pc' = "GetSecretBundles"
                      /\ UNCHANGED mountErr

\* a slip: the permission is decoded before the error of GetSecretBundles is
\* looked at
MountResponse_permissionFirst ==
    /\ pc = "returned"
    /\ UNCHANGED <<unit, ctx, grpcRequest, parked>>
    /\ UNCHANGED <<mountRequest, requests, requests0, auth, vaultID, apiCallMocks, i,
                   secretBundles, bundles, err, calls>>
    /\ pc' = "done"
    /\ LET p == unmarshalFilePermission(mountRequest.Permission)
           c == createResponse(bundles, Int32(p.filePermission))
       IN  IF p.err # nil
           THEN /\ mountErr' = PlainError("failed to unmarshal file permission, error: " \o p.err)
                /\ UNCHANGED response
           ELSE IF err # nil
           THEN /\ mountErr' = Status("NotFound", "unable to retrieve secrets: " \o err)
                /\ UNCHANGED response
           ELSE IF c.err # nil
           THEN /\ mountErr' = PlainError(c.err)
                /\ UNCHANGED response
           ELSE /\ response' = c.response
                /\ UNCHANGED mountErr

\* Mount after GetSecretBundles has returned: the error class of a failed
\* resolution, the permission decode and the response assembly
MountResponse ==
    /\ pc = "returned"
    /\ UNCHANGED <<unit, ctx, grpcRequest, parked>>
    /\ UNCHANGED <<mountRequest, requests, requests0, auth, vaultID, apiCallMocks, i,
                   secretBundles, bundles, err, calls>>
    /\ pc' = "done"
    /\ LET p == unmarshalFilePermission(mountRequest.Permission)
           c == createResponse(bundles, Int32(p.filePermission))
       IN  IF err # nil
           THEN /\ mountErr' = Status("NotFound", "unable to retrieve secrets: " \o err)
                /\ UNCHANGED response
           ELSE IF p.err # nil
           THEN /\ mountErr' = PlainError("failed to unmarshal file permission, error: " \o p.err)
                /\ UNCHANGED response
           ELSE IF c.err # nil
           THEN /\ mountErr' = PlainError(c.err)
                /\ UNCHANGED response
           ELSE /\ response' = c.response
                /\ UNCHANGED mountErr

Init ==
    /\ pc = "Mount"
    /\ mountRequest \in MountRequests
    /\ requests = <<>>
    /\ requests0 = <<>>
    /\ auth = NULL
    /\ vaultID = ""
    /\ apiCallMocks \in Vaults
    /\ i = 0
    /\ secretBundles = <<>>
    /\ bundles = <<>>
    /\ err = nil
    /\ calls = <<>>
    /\ response = NULL
    /\ mountErr = OK
    /\ unit = NULL
    /\ ctx = Background
    /\ grpcRequest = NULL
    /\ parked = NULL

Next == Mount \/ MountAuth \/ GetSecretBundles \/ GetSecretBundlesLoop \/ MountResponse

Spec == Init /\ [][Next]_vars

-----------------------------------------------------------------------------
(* Mount called with a deadline that may pass while GetSecretBundles runs *)

InitDeadline ==
    /\ pc = "Mount"
    /\ mountRequest \in MountRequests
    /\ requests = <<>>
    /\ requests0 = <<>>
    /\ auth = NULL
    /\ vaultID = ""
    /\ apiCallMocks \in Vaults
    /\ i = 0
    /\ secretBundles = <<>>
    /\ bundles = <<>>
    /\ err = nil
    /\ calls = <<>>
    /\ response = NULL
    /\ mountErr = OK
    /\ unit = NULL
    /\ ctx = WithDeadline
    /\ grpcRequest = NULL
    /\ parked = NULL

\* the deadline of the invocation passes
Deadline ==
    /\ pc \in {"GetSecretBundles", "getSecretBundle"}
    /\ ctx = WithDeadline
    /\ grpcRequest = NULL
    /\ parked = NULL
    /\ ctx' = DeadlineExceeded
    /\ UNCHANGED <<pc, mountRequest, requests, requests0, auth, vaultID, apiCallMocks,
                   i, secretBundles, bundles, err, calls, response, mountErr, unit,
                   grpcRequest, parked>>

NextDeadline ==
    Mount \/ MountAuth \/ GetSecretBundles \/ GetSecretBundlesLoop \/ MountResponse \/ Deadline

SpecDeadline == InitDeadline /\ [][NextDeadline]_vars

-----------------------------------------------------------------------------
(* two Mount invocations handled concurrently by the gRPC server, each in its
   own goroutine behind LogInterceptor; the program variables are the locals
   of the goroutine that runs, parked holds those of the other one *)

\* the local variables of the goroutine that runs
goroutine ==
    [pc |-> pc, mountRequest |-> mountRequest, requests |-> requests,
     requests0 |-> requests0, auth |-> auth, vaultID |-> vaultID, i |-> i,
     secretBundles |-> secretBundles, bundles |-> bundles, err |-> err,
     calls |-> calls, response |-> response, mountErr |-> mountErr, ctx |-> ctx]

\* the secrets lists of the concurrent invocations
PairSecrets ==
    { <<Entry("a", "", "", ""), Entry("b", "CURRENT", "", "")>>,
      <<Entry("a", "", "", "q"), Entry("a", "", "1", "")>>,
      <<Entry("b", "PREVIOUS", "1", "")>>,
      <<Entry(" a", "", "", "")>> }

\* the mount requests of the concurrent invocations
PairRequests ==
    { r \in MountRequests :
        /\ r.Attributes.stringMap
        /\ r.Permission = "292"
        /\ authConfigSecretNameField \in DOMAIN r.Attributes.members
        /\ secretsField \in DOMAIN r.Attributes.members
        /\ r.Attributes.members[authTypeField] \in {Instance, User}
        /\ r.Attributes.members[secretsField].kind = "sequence"
        /\ r.Attributes.members[secretsField].items \in PairSecrets }

\* the goroutine of a request that has just entered the interceptor
entered(r) ==
    [pc |-> "LogInterceptor", mountRequest |-> r, requests |-> <<>>,
     requests0 |-> <<>>, auth |-> NULL, vaultID |-> "", i |-> 0,
     secretBundles |-> <<>>, bundles |-> <<>>, err |-> nil,
     calls |-> <<>>, response |-> NULL, mountErr |-> OK, ctx |-> Background]

InitPair ==
    /\ pc = "LogInterceptor"
    /\ mountRequest \in PairRequests
    /\ requests = <<>>
    /\ requests0 = <<>>
    /\ auth = NULL
    /\ vaultID = ""
    /\ apiCallMocks \in Vaults
    /\ i = 0
    /\ secretBundles = <<>>
    /\ bundles = <<>>
    /\ err = nil
    /\ calls = <<>>
    /\ response = NULL
    /\ mountErr = OK
    /\ unit = NULL
    /\ ctx = Background
    /\ grpcRequest = NULL
    /\ parked \in {entered(r) : r \in PairRequests}

\* metrics.NewStatsReporter: the recorder it makes; each call makes a new one
NewFloat64ValueRecorder(old) ==
    [name |-> "grpc_request", serial |-> IF old = NULL THEN 1 ELSE old.serial + 1]

\* LogInterceptor up to the call of the handler: NewStatsReporter assigns the
\* package-level grpcRequest
LogInterceptor ==
    /\ pc = "LogInterceptor"
    /\ grpcRequest' = NewFloat64ValueRecorder(grpcRequest)
    /\ pc' = "Mount"
    /\ UNCHANGED <<mountRequest, requests, requests0, auth, vaultID, apiCallMocks,
                   i, secretBundles, bundles, err, calls, response, mountErr, unit, ctx,
                   parked>>

\* LogInterceptor after the handler has returned: ReportGRPCRequest measures
\* with the recorder grpcRequest holds at that moment, and the response and
\* the error of the handler are returned as they are
ReportGRPCRequest ==
    /\ pc = "done"
    /\ calls' = Append(calls, [op |-> "RecordBatch", recorder |-> grpcRequest,
                                code |-> mountErr.code])
    /\ pc' = "exited"
    /\ UNCHANGED <<mountRequest, requests, requests0, auth, vaultID, apiCallMocks,
                   i, secretBundles, bundles, err, response, mountErr, unit, ctx,
                   grpcRequest, parked>>

\* the scheduler lets the other goroutine run; a panic is not recovered by the
\* server and ends the process, so nothing runs after it
Switch ==
    /\ pc # "panicked"
    /\ parked.pc # "exited"
    /\ parked' = goroutine
    /\ pc' = parked.pc
    /\ mountRequest' = parked.mountRequest
    /\ requests' = parked.requests
    /\ requests0' = parked.requests0
    /\ auth' = parked.auth
    /\ vaultID' = parked.vaultID
    /\ i' = parked.i
    /\ secretBundles' = parked.secretBundles
    /\ bundles' = parked.bundles
    /\ err' = parked.err
    /\ calls' = parked.calls
    /\ response' = parked.response
    /\ mountErr' = parked.mountErr
    /\ ctx' = parked.ctx
    /\ UNCHANGED <<apiCallMocks, unit, grpcRequest>>

NextPair ==
    \/ LogInterceptor
    \/ Mount
    \/ MountAuth
    \/ GetSecretBundles
    \/ GetSecretBundlesLoop
    \/ MountResponse
    \/ ReportGRPCRequest
    \/ Switch

SpecPair == InitPair /\ [][NextPair]_vars

-----------------------------------------------------------------------------
(* the methods of internal/types called directly, as the types tests call them *)

\* the Stage values: the enumerated ones and one outside the enumeration
StageValues == {None, Current, Pending, Latest, Previous, Deprecated, Deprecated + 1}

\* the texts handed to FromString
StageTokens ==
    {"", "CURRENT", "PENDING", "LATEST", "PREVIOUS", "DEPRECATED",
     "current", "Latest", "UNKNOWN_STAGE", "ARCHIVED", " CURRENT", "NONE"}

\* a Stage to serialise, a text, and the Stage variable FromString writes to
StageUnits ==
    { [op |-> "Stage", pc |-> "start", stage |-> s, value |-> v, target |-> r,
       old |-> r, err |-> nil] : s \in StageValues, v \in StageTokens, r \in StageValues }

\* ContentType values: Base64 and two that are not declared
ContentTypes == {Base64, Base64 - 1, Base64 + 1}

\* contents: none, well-formed base64 and malformed base64
Contents ==
    {"", "YmFy", "YmFyMQ==", "Zm9v", "d29ybGQ=", "aGk=",
     "aaa", "aGk", "YmFyMQ=", "YmFy=", "Ym=y", "=mFy", "Y!Fy", "b@r1", "YmFyM"}

\* a SecretBundleContent to decode
ContentUnits ==
    { [op |-> "Decode", pc |-> "start", content |-> [ContentType |-> ct, Content |-> c],
       value |-> <<>>, err |-> nil] : ct \in ContentTypes, c \in Contents }

\* an AuthConfig to validate: each field set or not
ConfigUnits ==
    { [op |-> "Validate", pc |-> "start", config |-> c, errs |-> <<>>, err |-> nil] :
        c \in [Region : {"", "us-ashburn-1"}, TenancyID : {"", "ocid1.tenancy"},
               UserID : {"", "ocid1.user"}, PrivateKey : {"", "PEM"},
               Fingerprint : {"", "aa:bb"}, Passphrase : {"", "secret"}] }

TypesUnits == StageUnits \cup ContentUnits \cup ConfigUnits

\* stage.String()
StageString ==
    /\ unit.op = "Stage"
    /\ unit.pc = "start"
    /\ unit' = [unit EXCEPT !.pc = "String", !.value = Stage_String(unit.stage)]
    /\ UNCHANGED <<pc, mountRequest, requests, requests0, auth, vaultID, apiCallMocks,
                   i, secretBundles, bundles, err, calls, response, mountErr, ctx,
                   grpcRequest, parked>>

\* target.FromString(value), on the text given or on the text String returned
StageFromString ==
    /\ unit.op = "Stage"
    /\ unit.pc \in {"start", "String"}
    /\ LET r == Stage_FromString(unit.target, unit.value)
       IN  unit' = [unit EXCEPT !.pc = IF unit.pc = "String" THEN "RoundTrip" ELSE "FromString",
                                !.old = unit.target,
                                !.target = r.stage,
                                !.err = r.err]
    /\ UNCHANGED <<pc, mountRequest, requests, requests0, auth, vaultID, apiCallMocks,
                   i, secretBundles, bundles, err, calls, response, mountErr, ctx,
                   grpcRequest, parked>>

\* content.Decode()
DecodeContent ==
    /\ unit.op = "Decode"
    /\ unit.pc = "start"
    /\ LET r == Decode(unit.content)
       IN  unit' = [unit EXCEPT !.pc = "Decoded", !.value = r.value, !.err = r.err]
    /\ UNCHANGED <<pc, mountRequest, requests, requests0, auth, vaultID, apiCallMocks,
                   i, secretBundles, bundles, err, calls, response, mountErr, ctx,
                   grpcRequest, parked>>

\* config.Validate(), with the error list it aggregates
ValidateConfig ==
    /\ unit.op = "Validate"
    /\ unit.pc = "start"
    /\ unit' = [unit EXCEPT !.pc = "Validated", !.errs = validateConfig(unit.config),
                            !.err = Validate(unit.config)]
    /\ UNCHANGED <<pc, mountRequest, requests, requests0, auth, vaultID, apiCallMocks,
                   i, secretBundles, bundles, err, calls, response, mountErr, ctx,
                   grpcRequest, parked>>

InitTypes ==
    /\ pc = "types"
    /\ mountRequest = NULL
    /\ requests = <<>>
    /\ requests0 = <<>>
    /\ auth = NULL
    /\ vaultID = ""
    /\ apiCallMocks = <<>>
    /\ i = 0
    /\ secretBundles = <<>>
    /\ bundles = <<>>
    /\ err = nil
    /\ calls = <<>>
    /\ response = NULL
    /\ mountErr = OK
    /\ unit \in TypesUnits
    /\ ctx = Background
    /\ grpcRequest = NULL
    /\ parked = NULL

NextTypes == StageString \/ StageFromString \/ DecodeContent \/ ValidateConfig

SpecTypes == InitTypes /\ [][NextTypes]_vars

-----------------------------------------------------------------------------
(* properties of GetSecretBundles *)

\* the remote fetches among the external calls cs
Fetches(cs) == SelectSeq(cs, LAMBDA c : c.op = "GetSecretBundleByName")

\* the calls GetSecretBundles itself issues among the external calls cs
ServiceCalls(cs) ==
    SelectSeq(cs, LAMBDA c : c.op \in {"createConfigProvider", "createSecretClient",
                                        "GetSecretBundleByName"})

\* two requests of the batch have the same effective output path
HasDuplicatePath(reqs) ==
    \E j, k \in 1..Len(reqs) : j < k /\ GetFilePath(reqs[j]) = GetFilePath(reqs[k])

\* the position of the first request whose path is that of an earlier one
FirstCollision(reqs) ==
    CHOOSE k \in 1..Len(reqs) :
        /\ \E j \in 1..(k - 1) : GetFilePath(reqs[j]) = GetFilePath(reqs[k])
        /\ \A m \in 1..(k - 1) : \A j \in 1..(m - 1) : GetFilePath(reqs[j]) # GetFilePath(reqs[m])

\* the earlier request the request at k collides with
CollidesWith(reqs, k) == CHOOSE j \in 1..(k - 1) : GetFilePath(reqs[j]) = GetFilePath(reqs[k])

\* the request has a name and does not set both stage and versionNumber
ValidRequest(r) == r.Name # "" /\ ~(r.Stage # None /\ r.VersionNumber # 0)

\* the positions of the requests of the batch that are not valid
InvalidAt(reqs) == {k \in 1..Len(reqs) : ~ValidRequest(reqs[k])}

\* the stage token a request selects by: none with a version number, CURRENT
\* when it names neither
WantedStage(r) ==
    IF r.VersionNumber # 0 THEN ""
    ELSE IF r.Stage = None THEN "CURRENT" ELSE stageMapping[r.Stage]

\* the vault entries that hold what the request asks for
RemoteEntries(r) ==
    {k \in 1..Len(apiCallMocks) :
        /\ apiCallMocks[k].request.SecretName = r.Name
        /\ apiCallMocks[k].request.Stage = WantedStage(r)
        /\ r.VersionNumber # 0 => apiCallMocks[k].request.VersionNumber = <<r.VersionNumber>>}

RemoteResponse(r) ==
    apiCallMocks[CHOOSE k \in RemoteEntries(r) : \A j \in RemoteEntries(r) : k <= j].response

\* the secret exists remotely, as a base64 bundle whose stages are enumerated ones
ExistsRemotely(r) ==
    /\ RemoteEntries(r) # {}
    /\ RemoteResponse(r).ContentKind = Base64SecretBundleContentDetails
    /\ \A n \in 1..Len(RemoteResponse(r).Stages) :
          RemoteResponse(r).Stages[n] \in {"CURRENT", "PENDING", "LATEST", "PREVIOUS", "DEPRECATED"}

\* C1: when GetSecretBundles has returned, it has returned either one bundle
\* for every request and no error, or an error and no bundle at all, whatever
\* was fetched before the failure.
C1_Atomicity ==
    pc = "returned" =>
        \/ /\ err = nil
           /\ Len(bundles) = Len(requests0)
           /\ Len(bundles) > 0
           /\ \A k \in 1..Len(bundles) : bundles[k] # NULL
        \/ /\ err # nil
           /\ bundles = <<>>

\* a request failed after an earlier request of the batch had been fetched
C1_Witness ==
    /\ pc = "returned"
    /\ err # nil
    /\ Len(secretBundles) >= 2
    /\ secretBundles[1] # NULL
    /\ Len(Fetches(calls)) >= 2
    /\ bundles = <<>>

C2_Pre ==
    /\ Len(requests0) > 0
    /\ ~HasDuplicatePath(requests0)
    /\ \A k \in 1..Len(requests0) : ValidRequest(requests0[k]) /\ ExistsRemotely(requests0[k])

\* C2: for a non-empty batch of valid requests with pairwise distinct paths
\* that all exist remotely, once the client is created GetSecretBundles returns
\* one bundle per request, bundle k with the name and alias of request k and
\* the id, version, stages and content the remote holds for request k, and the
\* paths of the bundles are pairwise distinct.
C2_OneBundlePerRequest ==
    (pc = "returned" /\ i >= 1 /\ C2_Pre) =>
        /\ err = nil
        /\ Len(bundles) = Len(requests0)
        /\ \A k \in 1..Len(requests0) :
              LET b == bundles[k]
                  r == requests0[k]
                  remote == RemoteResponse(r)
              IN  /\ b.Name = r.Name
                  /\ b.FileName = r.FileName
                  /\ b.ID = remote.SecretId
                  /\ b.VersionNumber = remote.VersionNumber
                  /\ [n \in 1..Len(b.Stages) |-> Stage_String(b.Stages[n])] = remote.Stages
                  /\ b.BundleContent.Content = remote.Content
        /\ \A j, k \in 1..Len(bundles) : j # k => GetFilePath(bundles[j]) # GetFilePath(bundles[k])

\* a batch of three, one of them with an alias, was resolved
C2_Witness ==
    /\ pc = "returned"
    /\ C2_Pre
    /\ err = nil
    /\ Len(bundles) = 3
    /\ \E k \in 1..3 : bundles[k].FileName # ""

C7_DuplicateBeforeAnyCall ==
    HasDuplicatePath(requests0) =>
        /\ ServiceCalls(calls) = <<>>
        /\ pc = "returned" =>
              /\ bundles = <<>>
              /\ \E k \in 1..Len(requests0) :
                    err \in {DuplicateNameError(requests0[k].Name),
                             DuplicateAliasError(requests0[k].FileName)}

\* the first and the third request of a batch collide, the second does not
C7_Witness ==
    /\ pc = "returned"
    /\ Len(requests0) = 3
    /\ GetFilePath(requests0[1]) = GetFilePath(requests0[3])
    /\ GetFilePath(requests0[1]) # GetFilePath(requests0[2])
    /\ err # nil

C9_DuplicateErrors ==
    (pc = "returned" /\ Len(requests0) = 2) =>
        LET r1 == requests0[1]
            r2 == requests0[2]
        IN  /\ (r1.Name = r2.Name /\ r1.FileName = "" /\ r2.FileName = "")
                  => err = DuplicateNameError(r1.Name)
            /\ (r1.Name # r2.Name /\ r1.FileName = r2.FileName /\ r1.FileName # "")
                  => err = DuplicateAliasError(r1.FileName)

\* C10: a request with neither stage nor versionNumber is handled as the same
\* request with stage CURRENT: the step that handles it issues the fetch (name,
\* vault id, stage CURRENT, no version) and leaves the request, the bundle and
\* the error that the request with CURRENT set explicitly gives.
C10_DefaultIsCurrent ==
    [][ (pc = "getSecretBundle" /\ requests[i].Stage = None /\ requests[i].VersionNumber = 0) =>
          LET explicit == getSecretBundle(apiCallMocks, vaultID,
                                          [requests[i] EXCEPT !.Stage = Current])
          IN  /\ calls' = calls \o explicit.fetched
              /\ requests[i].Name # "" =>
                    calls' = Append(calls, [op |-> "GetSecretBundleByName",
                                            request |-> [SecretName |-> requests[i].Name,
                                                         VaultId |-> vaultID,
                                                         VersionNumber |-> <<>>,
                                                         Stage |-> "CURRENT"]])
              /\ explicit.err # nil => (err' = explicit.err /\ bundles' = <<>>)
              /\ explicit.err = nil => secretBundles'[i] = explicit.bundle
              /\ requests[i].Name # "" => requests'[i] = explicit.request
      ]_vars

\* a request that named neither was resolved to the CURRENT version
C10_Witness ==
    \E k \in 1..Len(requests0) :
        /\ requests0[k].Stage = None /\ requests0[k].VersionNumber = 0
        /\ k <= Len(secretBundles)
        /\ secretBundles[k] # NULL
        /\ requests[k].Stage = Current
        /\ "CURRENT" \in {Stage_String(secretBundles[k].Stages[n]) : n \in 1..Len(secretBundles[k].Stages)}

-----------------------------------------------------------------------------
(* properties of Mount *)

\* the secrets attribute of the mount request decodes to an empty batch
MountBatchEmpty ==
    LET a == unmarshalRequestAttributes(mountRequest.Attributes)
        r == retrieveSecretRequests(a.attributes)
    IN  a.err = nil /\ r.err = nil /\ r.requests = <<>>

\* the plain text, as bytes, of the contents the vaults hold
PlainText(content) ==
    CASE content = "YmFyMQ==" -> <<98, 97, 114, 49>>
      [] content = "YmFy" -> <<98, 97, 114>>
      [] content = "Zm9v" -> <<102, 111, 111>>
      [] content = "d29ybGQ=" -> <<119, 111, 114, 108, 100>>
      [] content = "aGk=" -> <<104, 105>>

\* the number a permission string of the mount requests denotes
PermissionNumber(permission) ==
    CASE permission = "292" -> 292
      [] permission = "420" -> 420

\* the decimal text of the version numbers the vaults hold
VersionText(n) ==
    CASE n = 1 -> "1" [] n = 2 -> "2" [] n = 3 -> "3" [] n = 12 -> "12" [] n = 120 -> "120"

\* C3: in a successful Mount response Files and ObjectVersion both have the
\* length of the resolved bundle list, and the file and the version at each
\* position are those of the bundle, and of the request, at that position.
C3_IndexAligned ==
    (pc = "done" /\ response # NULL) =>
        /\ Len(response.Files) = Len(bundles)
        /\ Len(response.ObjectVersion) = Len(bundles)
        /\ Len(bundles) = Len(requests0)
        /\ \A k \in 1..Len(bundles) :
              /\ response.Files[k].Path = GetFilePath(bundles[k])
              /\ response.Files[k].Path = GetFilePath(requests0[k])
              /\ response.Files[k].Contents = PlainText(bundles[k].BundleContent.Content)
              /\ response.ObjectVersion[k].Id = bundles[k].ID
              /\ response.ObjectVersion[k].Version = VersionText(bundles[k].VersionNumber)

\* two secrets with different ids and versions were mounted, one under an alias
C3_Witness ==
    /\ pc = "done"
    /\ response # NULL
    /\ Len(response.Files) = 2
    /\ response.ObjectVersion[1].Id # response.ObjectVersion[2].Id
    /\ response.ObjectVersion[1].Version # response.ObjectVersion[2].Version
    /\ response.Files[1].Path = "q"
    /\ bundles[2].FileName = ""

\* C4: for every resolved bundle Mount produces a file whose path is the
\* trimmed alias if that is non-empty and else the trimmed name, whose contents
\* are the decoded content and whose mode is the permission number of the
\* request, and a version entry with the remote id and the decimal text of the
\* remote version number.
C4_FileAndVersion ==
    (pc = "done" /\ response # NULL) =>
        \A k \in 1..Len(bundles) :
            LET b == bundles[k]
                remote == RemoteResponse(requests0[k])
                file == response.Files[k]
                version == response.ObjectVersion[k]
            IN  /\ file.Path = IF TrimSpace(b.FileName) # ""
                               THEN TrimSpace(b.FileName) ELSE TrimSpace(b.Name)
                /\ file.Contents = PlainText(remote.Content)
                /\ file.Mode = PermissionNumber(mountRequest.Permission)
                /\ version.Id = remote.SecretId
                /\ version.Version = VersionText(remote.VersionNumber)

\* a secret was mounted under its alias next to one mounted under its name,
\* trimmed, with a version number of several digits
C4_Witness ==
    /\ pc = "done"
    /\ response # NULL
    /\ \E j, k \in 1..Len(bundles) :
          /\ bundles[j].FileName = "q" /\ response.Files[j].Path = "q"
          /\ bundles[k].Name = " a" /\ response.Files[k].Path = "a"
          /\ response.ObjectVersion[k].Version = "120"
          /\ response.Files[k].Contents = <<98, 97, 114>>
          /\ response.Files[k].Mode = 420

\* C6 as stated: an empty batch fails with the empty-batch error and no
\* network call at all, the auth lookup included, is attempted for it.
C6_NoCallAtAll ==
    MountBatchEmpty =>
        /\ calls = <<>>
        /\ response = NULL
        /\ pc = "done" =>
              mountErr = Status("NotFound",
                                "unable to retrieve secrets: requested secrets are missed")

\* C6, amended: an empty batch never succeeds with zero files, GetSecretBundles
\* refuses it with the empty-batch error, and no credential provider or client
\* is created and no fetch issued for it; Mount resolves the principal first,
\* so the auth lookup or token request may have been made, and a failure of
\* that step is what Mount returns.
C6_EmptyBatchRefused ==
    MountBatchEmpty =>
        /\ ServiceCalls(calls) = <<>>
        /\ response = NULL
        /\ bundles = <<>>
        /\ pc = "returned" => err = "requested secrets are missed"
        /\ pc = "done" =>
              /\ mountErr # OK
              /\ auth # NULL =>
                    mountErr = Status("NotFound",
                                      "unable to retrieve secrets: requested secrets are missed")
              /\ auth = NULL => mountErr.code = "Unknown"

\* the auth secret was looked up for an empty batch, which was then refused
C6_Witness ==
    /\ MountBatchEmpty
    /\ pc = "done"
    /\ Len(calls) = 1
    /\ calls[1].op = "readK8sSecret"
    /\ mountErr = Status("NotFound", "unable to retrieve secrets: requested secrets are missed")

\* C13: Mount fails with the invalid-argument class when the attribute string
\* is not a map of strings to strings or the map has no secrets key, and with
\* the not-found class whenever GetSecretBundles has returned an error; a
\* missing secrets key is never reported as not-found.
C13_ErrorClasses ==
    pc = "done" =>
        /\ ~mountRequest.Attributes.stringMap => mountErr.code = "InvalidArgument"
        /\ (mountRequest.Attributes.stringMap
              /\ "secrets" \notin DOMAIN mountRequest.Attributes.members) =>
               (mountErr.code = "InvalidArgument" /\ calls = <<>>)
        /\ err # nil => mountErr.code = "NotFound"

\* the second secret of a mount was not found in the vault after the first
\* one was fetched
C13_Witness ==
    /\ pc = "done"
    /\ Len(Fetches(calls)) = 2
    /\ err = "unable to retrieve secret from vault"
    /\ mountErr.code = "NotFound"

\* the secrets attribute of the mount request, if it has one
SecretsAttribute == mountRequest.Attributes.members["secrets"]

\* the secrets attribute is missing, has no text, is not a list of entries, or
\* has an entry with a field that is not known or with a version number that
\* is zero or negative
SecretsRejected ==
    /\ mountRequest.Attributes.stringMap
    /\ \/ "secrets" \notin DOMAIN mountRequest.Attributes.members
       \/ SecretsAttribute.kind \in {"empty", "scalar"}
       \/ /\ SecretsAttribute.kind = "sequence"
          /\ \E k \in 1..Len(SecretsAttribute.items) :
                LET item == SecretsAttribute.items[k]
                IN  /\ item # NullNode
                    /\ \/ ~(DOMAIN item \subseteq {"name", "stage", "versionNumber", "fileName"})
                       \/ /\ "versionNumber" \in DOMAIN item
                          /\ item["versionNumber"] \in {"0", "-1"}

\* C15: Mount rejects with the invalid-argument class and without any external
\* call (no auth lookup, no token request, no remote fetch) every secrets
\* attribute that is missing, empty, not a list of entries, or has an entry
\* with an unknown field or with a version number that is zero or negative;
\* an empty versionNumber value is read as an absent one.
C15_SecretsRejectedFirst ==
    /\ SecretsRejected =>
          /\ pc \in {"Mount", "done"}
          /\ calls = <<>>
          /\ pc = "done" => mountErr.code = "InvalidArgument"
    /\ (pc \notin {"Mount", "done"} /\ SecretsAttribute.kind = "sequence") =>
          /\ Len(requests) = Len(SecretsAttribute.items)
          /\ \A k \in 1..Len(requests) :
                LET item == SecretsAttribute.items[k]
                IN  (/\ item # NullNode
                     /\ "versionNumber" \notin DOMAIN item \/ item["versionNumber"] = "")
                       => requests[k].VersionNumber = 0

\* a mount for the user principal was refused for the negative version number
\* of its second entry
C15_Witness ==
    /\ pc = "done"
    /\ mountRequest.Attributes.stringMap
    /\ "authType" \in DOMAIN mountRequest.Attributes.members
    /\ mountRequest.Attributes.members["authType"] = "user"
    /\ "authSecretName" \in DOMAIN mountRequest.Attributes.members
    /\ "secrets" \in DOMAIN mountRequest.Attributes.members
    /\ SecretsAttribute.kind = "sequence"
    /\ Len(SecretsAttribute.items) = 2
    /\ DOMAIN SecretsAttribute.items[1] = {"name", "versionNumber"}
    /\ SecretsAttribute.items[1]["versionNumber"] = "1"
    /\ DOMAIN SecretsAttribute.items[2] = {"name", "versionNumber"}
    /\ SecretsAttribute.items[2]["versionNumber"] = "-1"
    /\ mountErr.code = "InvalidArgument"
    /\ calls = <<>>

\* the auth lookups and token requests among the external calls cs
AuthCalls(cs) == SelectSeq(cs, LAMBDA c : c.op \in {"readK8sSecret", "getSAToken"})

\* the mount request names one of the three principals
NamesPrincipal(type) ==
    /\ "authType" \in DOMAIN mountRequest.Attributes.members
    /\ mountRequest.Attributes.members["authType"] = type

\* C16: an invocation uses the principal its authType names and no other: user
\* makes the auth-secret lookup and needs authSecretName, workload makes the
\* token request for the pod, instance makes neither; without an authType, or
\* with one that is not known, the invocation fails; and when the path of the
\* named principal fails the invocation fails, with no credential provider of
\* any principal created.
C16_OnePrincipal ==
    mountRequest.Attributes.stringMap =>
        LET m == mountRequest.Attributes.members
            known == \E type \in {"instance", "user", "workload"} : NamesPrincipal(type)
            lookup == [op |-> "readK8sSecret", namespace |-> "ns1", secretName |-> "oci-auth"]
            token == [op |-> "getSAToken", name |-> "pod1", uid |-> "uid1",
                      serviceAccount |-> "sa1", namespace |-> "ns1"]
        IN  /\ \A k \in 1..Len(calls) :
                  calls[k].op = "createConfigProvider" =>
                      (auth # NULL /\ NamesPrincipal(calls[k].principalType))
            /\ auth # NULL => NamesPrincipal(auth.Type)
            /\ AuthCalls(calls) =
                  (CASE NamesPrincipal("user") /\ "authSecretName" \in DOMAIN m ->
                            IF auth # NULL \/ calls # <<>> THEN <<lookup>> ELSE <<>>
                     [] NamesPrincipal("workload") ->
                            IF auth # NULL \/ calls # <<>> THEN <<token>> ELSE <<>>
                     [] OTHER -> <<>>)
            /\ (~known \/ (NamesPrincipal("user") /\ "authSecretName" \notin DOMAIN m)) =>
                  /\ auth = NULL
                  /\ pc \in {"Mount", "retrieveAuthConfig", "done"}
                  /\ pc = "done" => (mountErr # OK /\ response = NULL)
            /\ (pc = "done" /\ auth = NULL) =>
                  /\ mountErr # OK
                  /\ response = NULL
                  /\ ServiceCalls(calls) = <<>>

\* the token request of a workload mount failed and the mount failed with it
C16_Witness ==
    /\ pc = "done"
    /\ mountRequest.Attributes.stringMap
    /\ NamesPrincipal("workload")
    /\ Len(calls) = 1
    /\ calls[1].op = "getSAToken"
    /\ auth = NULL
    /\ mountErr.code = "Unknown"

\* C14: every error Mount returns is of one of the classes invalid-argument,
\* not-found and internal, and a failure to decode the permission string or
\* the content of a bundle, which happens after the bundles are resolved, is
\* of the class internal.
C14_ThreeClasses ==
    (pc = "done" /\ mountErr # OK) =>
        /\ mountErr.code \in {"InvalidArgument", "NotFound", "Internal"}
        /\ (err = nil /\ bundles # <<>>) => mountErr.code = "Internal"

-----------------------------------------------------------------------------
\* the answers of the vault to the fetches issued so far
Answers == [k \in 1..Len(Fetches(calls)) |->
               GetSecretBundleByName(apiCallMocks, Fetches(calls)[k].request)]

\* the tokens of a remote response that are the token of no stage
UnknownTokens(tokens) ==
    SelectSeq(tokens, LAMBDA t : \A st \in None..Deprecated : Stage_String(st) # t)

\* C18: when the remote response of a request holds a stage token that is the
\* token of no stage, GetSecretBundles returns no bundle and the unknown-stage
\* error naming the token; when its content is not of the base64 shape it
\* returns no bundle and the error of the content cast; no call goes on past
\* such a response.
C18_BadResponseFailsBatch ==
    \A k \in 1..Len(Answers) :
        Answers[k].err = nil =>
            LET r == Answers[k].response
            IN  /\ UnknownTokens(r.Stages) # <<>> =>
                       /\ pc = "returned"
                       /\ k = Len(Answers)
                       /\ bundles = <<>>
                       /\ err = "unknown stage: " \o Head(UnknownTokens(r.Stages))
                /\ r.ContentKind # Base64SecretBundleContentDetails =>
                       /\ pc = "returned"
                       /\ k = Len(Answers)
                       /\ bundles = <<>>
                       /\ err = "unable to cast secret content"

\* the third request of a batch met the unknown token after two good answers
C18_Witness ==
    /\ pc = "returned"
    /\ Len(Answers) = 3
    /\ Answers[3].err = nil
    /\ Answers[3].response.Stages = <<"CURRENT", "ARCHIVED">>
    /\ secretBundles[1] # NULL
    /\ secretBundles[2] # NULL
    /\ bundles = <<>>
    /\ err = "unknown stage: ARCHIVED"

\* C19: the id and the version number of every returned bundle are those of
\* the remote response to its request, also when the request selects a stage
\* or the remote answers with another version than the one asked for; the
\* name and the file alias are those of the request.
C19_RemoteIdentity ==
    (pc = "returned" /\ err = nil) =>
        /\ Len(Answers) = Len(bundles)
        /\ \A k \in 1..Len(bundles) :
               /\ bundles[k].ID = Answers[k].response.SecretId
               /\ bundles[k].VersionNumber = Answers[k].response.VersionNumber
               /\ bundles[k].Name = requests0[k].Name
               /\ bundles[k].FileName = requests0[k].FileName

\* version 1 of b was answered with version 4, and a was asked by stage
C19_Witness ==
    /\ pc = "returned"
    /\ err = nil
    /\ Len(bundles) = 2
    /\ requests0[1].VersionNumber = 1
    /\ bundles[1].VersionNumber = 4
    /\ bundles[1].ID = "ocid.b"
    /\ requests0[2].VersionNumber = 0
    /\ requests0[2].FileName = "q"
    /\ bundles[2].VersionNumber = 2
    /\ bundles[2].ID = "ocid.a"

\* the invocation has failed
Failed == err # nil \/ mountErr # OK \/ pc = "panicked"

\* C20: within one invocation the k-th remote fetch is the fetch of the k-th
\* request, so no request is fetched twice, and an invocation that succeeds
\* has fetched every request; the auth lookup or token request, the creation
\* of the provider and the creation of the client are issued at most once; a
\* fetch that fails is the last call, a step issues at most one fetch, and
\* once the invocation has failed no call is issued any more.
C20_NoRetry ==
    /\ [](/\ Len(Fetches(calls)) <= Len(requests)
          /\ \A k \in 1..Len(Fetches(calls)) :
                 Fetches(calls)[k].request = mapToOCIRequest(vaultID, requests[k])
          /\ (pc = "done" /\ mountErr = OK) => Len(Fetches(calls)) = Len(requests)
          /\ Len(AuthCalls(calls)) <= 1
          /\ Len(SelectSeq(calls, LAMBDA c : c.op = "createConfigProvider")) <= 1
          /\ Len(SelectSeq(calls, LAMBDA c : c.op = "createSecretClient")) <= 1
          /\ \A k \in 1..Len(Answers) :
                 (\/ Answers[k].err # nil
                  \/ mapOCIResponseToSecretBundle(Answers[k].response, requests[k]).err # nil)
                     => /\ k = Len(Answers)
                        /\ calls[Len(calls)].op = "GetSecretBundleByName"
                        /\ Failed)
    /\ [][ /\ Len(Fetches(calls')) <= Len(Fetches(calls)) + 1
           /\ Failed => calls' = calls
           /\ (Failed' /\ Fetches(calls') # Fetches(calls)) =>
                  Answers'[Len(Answers')].err # nil
                  \/ mapOCIResponseToSecretBundle(Answers'[Len(Answers')].response,
                                                  requests'[Len(Answers')]).err # nil
         ]_vars

\* the user principal was looked up once, the first of two requests was
\* fetched and refused, and the second request was never fetched
C20_Witness ==
    /\ pc = "done"
    /\ mountErr # OK
    /\ Len(requests) = 2
    /\ Len(AuthCalls(calls)) = 1
    /\ calls[1].op = "readK8sSecret"
    /\ Len(Fetches(calls)) = 1
    /\ Answers[1].err # nil
    /\ calls[Len(calls)].op = "GetSecretBundleByName"

C25_OneSelector ==
    \A k \in 1..Len(Fetches(calls)) :
        LET f == Fetches(calls)[k].request
        IN  /\ f.SecretName = requests0[k].Name
            /\ f.VaultId = vaultID
            /\ \/ /\ f.VersionNumber = <<requests0[k].VersionNumber>>
                  /\ requests0[k].VersionNumber # 0
                  /\ f.Stage = ""
               \/ /\ f.VersionNumber = <<>>
                  /\ f.Stage \in {"CURRENT", "PENDING", "LATEST", "PREVIOUS", "DEPRECATED"}

\* one request was fetched by its version number, the next by its stage, and
\* the third, which had neither, by the stage CURRENT
C25_Witness ==
    /\ Len(Fetches(calls)) = 3
    /\ Fetches(calls)[1].request.VersionNumber = <<1>>
    /\ Fetches(calls)[1].request.Stage = ""
    /\ Fetches(calls)[2].request.VersionNumber = <<>>
    /\ Fetches(calls)[2].request.Stage = "PREVIOUS"
    /\ requests0[3].Stage = None
    /\ Fetches(calls)[3].request.VersionNumber = <<>>
    /\ Fetches(calls)[3].request.Stage = "CURRENT"

\* text begins with prefix
HasPrefix(text, prefix) ==
    Len(text) >= Len(prefix) /\ SubSeq(text, 1, Len(prefix)) = prefix

\* C27: every batch the secrets parser returns without error holds present
\* requests only, and GetSecretBundles never reads a field of a missing
\* request, so Mount ends with a response or an error for every secrets
\* attribute, a list with a null entry included.
C27_NoMissingRequest ==
    /\ \A k \in 1..Len(requests) : requests[k] # NULL
    /\ pc = "panicked" => auth = NULL

\* C28: for the user principal the auth resolution ends with an auth config or
\* with an error for every auth secret with a config and a private key, a
\* config document without the auth mapping included: the merge of the
\* private key never writes into an absent mapping, so no invocation panics
\* before its Auth is built.
C28_AuthConfigOrError ==
    (NamesPrincipal("user") /\ auth = NULL) => pc # "panicked"

\* C29: every file of a Mount response has a path that is not empty: a
\* request whose name and alias are both empty or blank is never resolved into
\* a file.
C29_NonEmptyPath ==
    response # NULL =>
        \A k \in 1..Len(response.Files) : Len(response.Files[k].Path) > 0

\* the k-th request has been reached by the loop of GetSecretBundles
Reached(k) == k < i \/ (k = i /\ pc = "returned")

\* the k-th request was handed in with neither stage nor version number
Neither(k) == requests0[k].Stage = None /\ requests0[k].VersionNumber = 0

\* the batch is as it was handed in, but for the stages of the requests in set
FrameButStage(set) ==
    /\ Len(requests) = Len(requests0)
    /\ \A k \in 1..Len(requests) :
           requests[k] = [requests0[k] EXCEPT !.Stage = IF k \in set THEN Current ELSE @]

\* C30 as stated: the batch of the caller is as it was handed in, but that
\* every request with neither stage nor version number that the loop has
\* reached has the stage CURRENT.
C30_StageOfReached ==
    FrameButStage({k \in 1..Len(requests0) : Reached(k) /\ Neither(k)})

\* C30 amended: the batch of the caller is as it was handed in, but that every
\* request with a name and with neither stage nor version number that the
\* loop has reached has the stage CURRENT.
C30_StageOfReachedNamed ==
    FrameButStage({k \in 1..Len(requests0) :
                      Reached(k) /\ Neither(k) /\ requests0[k].Name # ""})

\* the first of three requests got the stage CURRENT, the second failed, and
\* the third, never reached, is as it was
C30_Witness ==
    /\ pc = "returned"
    /\ err # nil
    /\ Len(requests0) = 3
    /\ i = 2
    /\ Neither(1) /\ requests[1].Stage = Current
    /\ Neither(3) /\ requests[3].Stage = None
    /\ requests0[3].Name # ""

\* the error the k-th request of the batch meets in the loop, nil when none:
\* empty name, both selectors, refused fetch, content shape, stage tokens
RequestError(k) ==
    LET r == requests0[k]
        answer == GetSecretBundleByName(apiCallMocks, mapToOCIRequest(vaultID, defaultStage(r)))
    IN  IF r.Name = "" THEN "missed secret name"
        ELSE IF r.VersionNumber # 0 /\ r.Stage # None
        THEN "secret should be identified either with a version number or with stage"
        ELSE IF answer.err # nil THEN "unable to retrieve secret from vault"
        ELSE IF answer.response.ContentKind # Base64SecretBundleContentDetails
        THEN "unable to cast secret content"
        ELSE IF UnknownTokens(answer.response.Stages) # <<>>
        THEN "unknown stage: " \o Head(UnknownTokens(answer.response.Stages))
        ELSE nil

\* the requests that meet an error in the loop
FailingRequests == {k \in 1..Len(requests0) : RequestError(k) # nil}

\* the errors of the two factory calls
ProviderErrors ==
    {"failed to create a new key provider for instance principal",
     "failed to create a workload identity provider",
     "unable to determine OCI principal type for configuration provider"}
ClientError == "can not create client, bad configuration"

\* C26: GetSecretBundles returns the error of the first check that fails, in
\* the order empty batch, duplicate effective path over the whole batch,
\* provider creation, client creation, and then request by request: empty
\* name, both selectors, remote fetch, content shape, stage tokens; a check
\* that comes later has not run, so a batch with a duplicate path has created
\* no provider and a failed factory call has issued no fetch.
C26_CheckOrder ==
    pc = "returned" =>
        IF Len(requests0) = 0 THEN err = "requested secrets are missed" /\ calls = <<>>
        ELSE IF HasDuplicatePath(requests0)
        THEN HasPrefix(err, "duplicated ") /\ calls = <<>>
        ELSE IF err \in ProviderErrors
        THEN /\ Len(calls) = 1
             /\ calls[1].op = "createConfigProvider"
        ELSE IF err = ClientError
        THEN /\ Len(calls) = 2
             /\ calls[1].op = "createConfigProvider"
             /\ calls[2].op = "createSecretClient"
        ELSE /\ Len(calls) >= 2
             /\ calls[1].op = "createConfigProvider"
             /\ calls[2].op = "createSecretClient"
             /\ IF FailingRequests = {}
                THEN err = nil /\ Len(Fetches(calls)) = Len(requests0)
                ELSE LET first == CHOOSE k \in FailingRequests : \A j \in FailingRequests : k <= j
                     IN  /\ err = RequestError(first)
                         /\ Len(Fetches(calls)) \in {first - 1, first}

\* a batch of two requests without name and without alias was refused as a
\* duplicate, before any provider was created
C26_Witness ==
    /\ pc = "returned"
    /\ Len(requests0) = 2
    /\ requests0[1] = SecretBundleRequest("", None, 0, "")
    /\ requests0[2] = SecretBundleRequest("", None, 0, "")
    /\ err = "duplicated secret name: "
    /\ bundles = <<>>
    /\ calls = <<>>

\* the first stage of Mount that failed in an invocation that has ended, 0 when
\* none did: 1 attribute decode, 2 secrets parse, 3 auth resolution, 4 bundle
\* resolution, 5 permission decode, 6 response assembly
FailedStage ==
    IF ~mountRequest.Attributes.stringMap THEN 1
    ELSE IF retrieveSecretRequests(mountRequest.Attributes.members).err # nil THEN 2
    ELSE IF auth = NULL THEN 3
    ELSE IF err # nil THEN 4
    ELSE IF unmarshalFilePermission(mountRequest.Permission).err # nil THEN 5
    ELSE IF \E k \in 1..Len(bundles) : Decode(bundles[k].BundleContent).err # nil THEN 6
    ELSE 0

\* the stage of Mount an external call belongs to
StageOfCall(c) == IF c.op \in {"readK8sSecret", "getSAToken"} THEN 3 ELSE 4

\* C24: Mount runs attribute decode, secrets parse, auth resolution, bundle
\* resolution, permission decode and response assembly in this order and
\* stops at the first that fails: the error returned is the error of that
\* stage, whatever a later stage would have found, and no external call of a
\* later stage has been issued; the calls are issued in the order of the stages.
C24_StageOrder ==
    /\ \A j, k \in 1..Len(calls) : j < k => StageOfCall(calls[j]) <= StageOfCall(calls[k])
    /\ pc = "done" =>
         /\ \A k \in 1..Len(calls) : FailedStage # 0 => StageOfCall(calls[k]) <= FailedStage
         /\ CASE FailedStage = 1 ->
                    mountErr = Status("InvalidArgument",
                        "failed to unmarshal SecretProviderClass parameters or attributes provided by driver")
              [] FailedStage = 2 ->
                    /\ mountErr.code = "InvalidArgument"
                    /\ HasPrefix(mountErr.msg, "unable to handle SecretProviderClass secrets: ")
              [] FailedStage = 3 ->
                    /\ mountErr.code = "Unknown"
                    /\ ~HasPrefix(mountErr.msg, "failed to unmarshal file permission")
                    /\ err = nil /\ bundles = <<>>
              [] FailedStage = 4 ->
                    mountErr = Status("NotFound", "unable to retrieve secrets: " \o err)
              [] FailedStage = 5 ->
                    /\ mountErr.code = "Unknown"
                    /\ HasPrefix(mountErr.msg, "failed to unmarshal file permission, error: ")
              [] FailedStage = 6 ->
                    /\ mountErr.code = "Unknown"
                    /\ \E k \in 1..Len(bundles) :
                          mountErr.msg = Decode(bundles[k].BundleContent).err
              [] OTHER -> mountErr = OK /\ response # NULL
         /\ FailedStage # 0 => response = NULL

\* bundle resolution failed at the second fetch of a request whose permission
\* does not decode either: the error is that of the bundle resolution
C24_Witness ==
    /\ pc = "done"
    /\ FailedStage = 4
    /\ unmarshalFilePermission(mountRequest.Permission).err # nil
    /\ Len(Fetches(calls)) = 2
    /\ Len(AuthCalls(calls)) = 1
    /\ mountErr.code = "NotFound"

\* the loop of GetSecretBundles run to its end without interruption
RECURSIVE loopAlone(_, _, _, _, _)
loopAlone(mocks, vault, reqs, k, sbs) ==
    IF k > Len(reqs) THEN [bundles |-> sbs, err |-> nil]
    ELSE LET r == getSecretBundle(mocks, vault, reqs[k])
         IN  IF r.err # nil THEN failedRequest(sbs, r.err)
             ELSE loopAlone(mocks, vault, reqs, k + 1, Append(sbs, r.bundle))

\* GetSecretBundles run alone
GetSecretBundlesAlone(mocks, reqs, a, vault, providerOk, clientOk) ==
    IF requestsMissed(reqs) THEN [bundles |-> <<>>, err |-> "requested secrets are missed"]
    ELSE IF checkNameDuplication(reqs) # nil
    THEN [bundles |-> <<>>, err |-> checkNameDuplication(reqs)]  \* the panic included
    ELSE IF createConfigProvider(a, providerOk) # nil
    THEN [bundles |-> <<>>, err |-> createConfigProvider(a, providerOk)]
    ELSE IF createSecretClient(clientOk) # nil
    THEN [bundles |-> <<>>, err |-> createSecretClient(clientOk)]
    ELSE loopAlone(mocks, vault, reqs, 1, <<>>)

\* what Mount returns for a request when it runs alone against the vault,
\* given the answers of the cluster and of the SDK
MountAlone(req, mocks, k8sSecret, saToken, providerOk, clientOk) ==
    LET a == unmarshalRequestAttributes(req.Attributes)
        r == retrieveSecretRequests(a.attributes)
        c == retrieveAuthConfig(a.attributes, Lookup(a.attributes, podNamespaceField),
                                k8sSecret, saToken)
        g == GetSecretBundlesAlone(mocks, r.requests, c.auth,
                                   Lookup(a.attributes, vaultIDField), providerOk, clientOk)
        p == unmarshalFilePermission(req.Permission)
        f == createResponse(g.bundles, Int32(p.filePermission))
        Fails(e) == [response |-> NULL, mountErr |-> e, panic |-> FALSE]
    IN  IF a.err # nil
        THEN Fails(Status("InvalidArgument",
                 "failed to unmarshal SecretProviderClass parameters or attributes provided by driver"))
        ELSE IF r.err # nil
        THEN Fails(Status("InvalidArgument",
                          "unable to handle SecretProviderClass secrets: " \o r.err))
        ELSE IF c.panic THEN [response |-> NULL, mountErr |-> OK, panic |-> TRUE]
        ELSE IF c.err # nil THEN Fails(PlainError(c.err))
        ELSE IF g.err = NilDereference THEN [response |-> NULL, mountErr |-> OK, panic |-> TRUE]
        ELSE IF g.err # nil
        THEN Fails(Status("NotFound", "unable to retrieve secrets: " \o g.err))
        ELSE IF p.err # nil
        THEN Fails(PlainError("failed to unmarshal file permission, error: " \o p.err))
        ELSE IF f.err # nil THEN Fails(PlainError(f.err))
        ELSE [response |-> f.response, mountErr |-> OK, panic |-> FALSE]

AloneOutcomes(req, mocks) ==
    { MountAlone(req, mocks, k8sSecret, saToken, providerOk, clientOk) :
          k8sSecret \in K8sSecrets, saToken \in SaTokens,
          providerOk \in BOOLEAN, clientOk \in BOOLEAN }

\* how the invocation of a goroutine has ended
Outcome(g) == [response |-> g.response, mountErr |-> g.mountErr, panic |-> g.pc = "panicked"]

\* every invocation that has ended has ended as it may end alone
EndsAsAlone ==
    \A g \in {goroutine, parked} :
        g.pc \in {"done", "exited", "panicked"} =>
            Outcome(g) \in AloneOutcomes(g.mountRequest, apiCallMocks)

\* C22: of two concurrent Mount invocations each returns the response or the
\* error it may return when it runs alone against the same vault: one that
\* has ended has ended as it may end alone, and none is cut off by the other.
C22_Isolated ==
    /\ EndsAsAlone
    /\ pc = "panicked" =>
           \/ parked.pc = "exited"
           \/ \E o \in AloneOutcomes(parked.mountRequest, apiCallMocks) : o.panic

\* C23: while a request is handled, the interceptor included, no variable
\* shared between invocations is assigned; grpcRequest is the one package-level
\* variable that the code on the path of a request ever assigns (the fields of
\* the provider server and of the secret service are set by their constructors
\* only).
C23_NoSharedWrite == [][grpcRequest' = grpcRequest]_vars

-----------------------------------------------------------------------------
(* properties of internal/types *)

\* the upper-case token of each enumerated stage
StageToken(s) ==
    CASE s = 1 -> "CURRENT" [] s = 2 -> "PENDING" [] s = 3 -> "LATEST"
      [] s = 4 -> "PREVIOUS" [] s = 5 -> "DEPRECATED" [] OTHER -> ""

\* C11: FromString is the inverse of String: each of CURRENT, PENDING, LATEST,
\* PREVIOUS, DEPRECATED serialises to its upper-case token and parses back to
\* itself, NONE serialises to the empty text, which parses back to NONE, and
\* every other text is rejected with the unknown-stage error and leaves the
\* stage written to as it was.
C11_StageRoundTrip ==
    unit.op = "Stage" =>
        /\ (unit.pc \in {"String", "RoundTrip"} /\ unit.stage \in 0..5) =>
               unit.value = StageToken(unit.stage)
        /\ (unit.pc = "RoundTrip" /\ unit.stage \in 0..5) =>
               (unit.err = nil /\ unit.target = unit.stage)
        /\ unit.pc = "FromString" =>
               IF unit.value = ""
               THEN unit.err = nil /\ unit.target = 0
               ELSE IF \E s \in 1..5 : StageToken(s) = unit.value
               THEN unit.err = nil /\ unit.target \in 1..5
                    /\ StageToken(unit.target) = unit.value
               ELSE unit.err = "unknown stage: " \o unit.value /\ unit.target = unit.old

\* DEPRECATED went through its text into a stage that held CURRENT
C11_Witness ==
    /\ unit.op = "Stage"
    /\ unit.pc = "RoundTrip"
    /\ unit.stage = 5
    /\ unit.old = 1
    /\ unit.target = 5
    /\ unit.value = "DEPRECATED"

\* the contents that are well-formed base64, padded
WellFormedBase64 == {"YmFy", "YmFyMQ==", "Zm9v", "d29ybGQ=", "aGk="}

\* C12: Decode fails with the content-missing error on empty content whatever
\* the encoding; on content that is not empty it fails with the
\* unsupported-encoding error if the encoding is not BASE64, with a decode
\* error if the content is not well-formed base64, and gives the plain text
\* otherwise.
C12_Decode ==
    (unit.op = "Decode" /\ unit.pc = "Decoded") =>
        IF unit.content.Content = ""
        THEN unit.err = "missed secret content"
        ELSE IF unit.content.ContentType # 0
        THEN unit.err = "unknown content type"
        ELSE IF unit.content.Content \in WellFormedBase64
        THEN unit.err = nil /\ unit.value = PlainText(unit.content.Content)
        ELSE unit.err \notin {nil, "missed secret content", "unknown content type"}

\* empty content of an encoding that is not declared was refused as missing
C12_Witness ==
    /\ unit.op = "Decode"
    /\ unit.pc = "Decoded"
    /\ unit.content.Content = ""
    /\ unit.content.ContentType # 0
    /\ unit.err = "missed secret content"

\* the required fields of an AuthConfig and the path each is reported under
RequiredFields == {"TenancyID", "Region", "Fingerprint", "UserID", "PrivateKey"}

ReportedAs(f) ==
    CASE f = "TenancyID" -> "Auth.Tenancy" [] f = "Region" -> "Auth.Region"
      [] f = "Fingerprint" -> "Auth.Fingerprint" [] f = "UserID" -> "Auth.UserID"
      [] f = "PrivateKey" -> "Auth.PrivateKey"

\* C17: validation of the auth config of the user principal reports every
\* required field that is missing, among tenancy, region, fingerprint, user id
\* and private key, with one error for each and not only the first, fails
\* exactly when one is missing, and never reports the passphrase.
C17_AllMissingReported ==
    (unit.op = "Validate" /\ unit.pc = "Validated") =>
        LET missing == {f \in RequiredFields : unit.config[f] = ""}
            reported == {unit.errs[k] : k \in 1..Len(unit.errs)}
        IN  /\ reported = {ReportedAs(f) : f \in missing}
            /\ Len(unit.errs) = Cardinality(missing)
            /\ (unit.err = nil) <=> (missing = {})

\* a config with neither region, fingerprint nor passphrase had two errors
C17_Witness ==
    /\ unit.op = "Validate"
    /\ unit.pc = "Validated"
    /\ unit.config.Region = ""
    /\ unit.config.Fingerprint = ""
    /\ unit.config.Passphrase = ""
    /\ Len(unit.errs) = 2
    /\ unit.err = "[Auth.Region: Required value: Region is required for user principal, "
                  \o "Auth.Fingerprint: Required value: Fingerprint is required for user principal]"

====
